---- MODULE Spec2Model ----
(***************************************************************************)
(* Inventory management system (SQL310): the relational store of           *)
(* src/database.py, the Record Repository of src/crud_operations.py and    *)
(* the derived-stock queries, as a state machine over the four tables.     *)
(***************************************************************************)
EXTENDS Integers, FiniteSets, Sequences, TLC

\* ------------------------------------------------------------ bounds
\* Largest row id handed out per table under Spec (AUTOINCREMENT never reuses
\* an id, so each also bounds the successful creates on its table).
MaxCategories == 2
MaxSuppliers == 1
MaxProducts == 2
MaxTransactions == 1
\* Largest product and transaction id handed out under SpecLedger.
MaxLedgerProducts == 2
MaxLedger == 3
\* Under SpecCategories: the largest sequence value at which a category may
\* still be created, and the number of times the sample data may be loaded.
MaxSeedCategories == 5
MaxSeeds == 1
\* Largest product and transaction id handed out under SpecReports.
MaxReportProducts == 3
MaxReportTransactions == 2
\* Largest row id handed out per table under SpecRecords.
MaxRecordCategories == 2
MaxRecordSuppliers == 1
MaxRecordProducts == 1
MaxRecordTransactions == 1
\* Largest row id handed out per table under SpecListing, and the last second
\* of its clock.
MaxListCategories == 2
MaxListSuppliers == 2
MaxListProducts == 2
MaxListTransactions == 2
MaxTime == 1
\* Largest product and transaction id handed out under SpecTop.
MaxTopProducts == 6
MaxTopTransactions == 8
\* Largest category, product and transaction id handed out under
\* SpecCategoryReport.
MaxCategoryReportCategories == 2
MaxCategoryReportProducts == 2
MaxCategoryReportTransactions == 2
\* Largest product id handed out under SpecMain.
MaxMainProducts == 6
\* Largest product id handed out under SpecPrices.
MaxPriceProducts == 2
\* Largest category, supplier, product and transaction id handed out under
\* SpecPortable.
MaxPortableCategories == 1
MaxPortableSuppliers == 1
MaxPortableProducts == 2
MaxPortableTransactions == 2
\* Largest category, supplier, product and transaction id handed out under
\* SpecProcesses.
MaxProcessCategories == 1
MaxProcessSuppliers == 1
MaxProcessProducts == 2
MaxProcessTransactions == 1
\* Largest product id handed out under SpecSearch.
MaxSearchProducts == 2
\* Largest category and product id handed out under SpecConnection.
MaxConnectionCategories == 2
MaxConnectionProducts == 1

\* ------------------------------------------------------------ values
\* SQL NULL / Python None in an integer reference column. Row ids start at 1.
NULL == 0
\* SQL NULL / Python None in a TEXT column.
NullText == "<NULL>"

\* No call of the second process is under way.
NoCall == [call |-> "none", id |-> 0, count |-> 0]

\* Python return values of the Repository operations.
None == [tag |-> "None", val |-> 0]
\* An exception that leaves the operation and reaches its caller.
Raised == [tag |-> "raise", val |-> 0]
True == [tag |-> "bool", val |-> 1]
False == [tag |-> "bool", val |-> 0]
Id(n) == [tag |-> "int", val |-> n]
\* The None a read by id returns when no row matches.
Absent == <<>>
\* The message of the sqlite3.ProgrammingError a closed connection raises.
ClosedMessage == "Cannot operate on a closed database."

\* Inputs the callers draw from.
CategoryNames == {"Electronics", "Books"}
CategoryNameInputs == CategoryNames \cup {NullText}
Descriptions == {NullText, "Books and publications"}
SupplierNames == {"TechCorp Inc."}
ContactInfos == {NullText}
Addresses == {NullText}
ProductNames == {"Laptop"}
ProductDescriptions == {NullText}
\* Prices are counted in cents (999.99 is 99999).
Prices == {1999}
ReorderLevels == {5}
TransactionTypes == {"IN", "OUT", "ADJUSTMENT"}
TransactionTypeInputs == TransactionTypes \cup {"INVALID", "in"}
Quantities == {-1, 2}
Notes == {NullText}
\* What the callers of SpecRecords draw from.
RecordSupplierNames == {"TechCorp Inc.", NullText}
RecordContactInfos == {NullText, "contact@techcorp.com"}
RecordProductNames == {"Laptop", NullText}
RecordTransactionTypes == {"IN", "OUT", "INVALID"}
\* def get_transactions(self, limit: int = 100)
DefaultLimit == 100
\* What the callers of SpecListing draw from.
ListSupplierNames == {"TechCorp Inc.", "BookWorld"}
ListProductNames == {"Pen", "pencil"}
Limits == {0, 1, 2, DefaultLimit}
\* What the callers of SpecTop draw from.
TopPrices == {1999, 99999}
TopQuantities == {45}
\* What the callers of SpecCategoryReport draw from.
CategoryReportPrices == {200}
CategoryReportQuantities == {1}
\* What the callers of SpecPrices draw from (prices in cents).
PriceInputs == {-500, 0, 1999}
\* What the callers of SpecSearch draw from.
SearchProductNames == {"Pen", "pencil", "Ink_1"}
SearchDescriptions == {NullText, "blue ink"}
SearchTerms == {"pen", "PEN", "INK", "x", "", "_", "%"}
\* What the callers of SpecReports draw from.
ReportPrices == {1999, 4999}
ReportReorderLevels == {2}
ReportQuantities == {2, 3}

\* ------------------------------------------------------------ state
VARIABLES
    categories,             \* rows of table categories
    suppliers,              \* rows of table suppliers
    products,               \* rows of table products
    inventory_transactions, \* rows of table inventory_transactions (the ledger)
    sqlite_sequence,        \* per table, the largest rowid ever handed out
    foreign_keys,           \* PRAGMA foreign_keys
    connected,              \* the connection db.conn is open
    now,                    \* the store's CURRENT_TIMESTAMP, in seconds
    main,                   \* where main stands, and whether its local db is bound
    pending,                \* the call a second process has begun and not finished
    op,                     \* the Repository operation that ran last
    result,                 \* its return value
    stmts,                  \* the number of store statements it executed
    log                     \* what it printed to the diagnostic channel

tables == <<categories, suppliers, products, inventory_transactions>>
store == <<categories, suppliers, products, inventory_transactions, sqlite_sequence>>
vars == <<categories, suppliers, products, inventory_transactions, sqlite_sequence,
          foreign_keys, connected, now, main, pending, op, result, stmts, log>>

\* ------------------------------------------------------------ the store
\* Mutant: INTEGER PRIMARY KEY without AUTOINCREMENT: one more than the
\* largest rowid now in the table.
NextRowidMax(t) ==
    LET ids == {r.id : r \in CASE t = "categories" -> categories
                               [] t = "suppliers" -> suppliers
                               [] t = "products" -> products
                               [] OTHER -> inventory_transactions}
    IN IF ids = {} THEN 1
       ELSE (CHOOSE m \in ids : \A x \in ids : x <= m) + 1

\* AUTOINCREMENT: the next rowid is one more than the largest ever used.
NextRowid(t) == sqlite_sequence[t] + 1

\* Mutant: the table without its UNIQUE constraint.
UniqueNameOff(name, selfId) == TRUE

\* UNIQUE (categories.name): no other row bears the name.
UniqueNameOk(name, selfId) == \A c \in categories : c.name = name => c.id = selfId

\* Mutant: the reference from products to categories is not enforced.
CategoryFkOff(category_id) == TRUE

\* FOREIGN KEY (category_id) REFERENCES categories (id), when enforced.
CategoryFkOk(category_id) ==
    \/ ~foreign_keys
    \/ category_id = NULL
    \/ \E c \in categories : c.id = category_id

\* FOREIGN KEY (product_id) REFERENCES products (id), when enforced.
ProductFkOk(product_id) ==
    \/ ~foreign_keys
    \/ \E p \in products : p.id = product_id

\* Mutant: the reference from transactions to suppliers is not enforced.
SupplierFkOff(supplier_id) == TRUE

\* FOREIGN KEY (supplier_id) REFERENCES suppliers (id), when enforced.
SupplierFkOk(supplier_id) ==
    \/ ~foreign_keys
    \/ supplier_id = NULL
    \/ \E s \in suppliers : s.id = supplier_id

\* CHECK (transaction_type IN ('IN', 'OUT', 'ADJUSTMENT')).
TypeCheckOk(transaction_type) == transaction_type \in {"IN", "OUT", "ADJUSTMENT"}

\* Mutant: the DELETE of a category is not checked against the products.
CategoryUnreferencedOff(category_id) == TRUE

\* A parent row may go only when no child row references it (NO ACTION).
CategoryUnreferenced(category_id) ==
    ~foreign_keys \/ \A p \in products : p.category_id # category_id
SupplierUnreferenced(supplier_id) ==
    ~foreign_keys \/ \A t \in inventory_transactions : t.supplier_id # supplier_id
ProductUnreferenced(product_id) ==
    ~foreign_keys \/ \A t \in inventory_transactions : t.product_id # product_id

Bump(t) == [sqlite_sequence EXCEPT ![t] = @ + 1]

\* What one call leaves behind for its caller.
Returns(name, value, n, message) ==
    /\ op' = name
    /\ result' = value
    /\ stmts' = n
    /\ log' = message

\* ------------------------------------------------------------ categories
\* Mutant: INSERT OR REPLACE, which replaces the row bearing the name.
create_category_or_replace(name, description) ==
    /\ IF ~connected
       THEN /\ Returns("create_category", None, 1, ClosedMessage)
            /\ UNCHANGED <<categories, sqlite_sequence>>
       ELSE IF name = NullText
       THEN /\ Returns("create_category", None, 1, "NOT NULL constraint failed")
            /\ UNCHANGED <<categories, sqlite_sequence>>
       ELSE /\ categories' = {c \in categories : c.name # name} \cup
                   {[id |-> NextRowid("categories"), name |-> name,
                     description |-> description]}
            /\ sqlite_sequence' = Bump("categories")
            /\ Returns("create_category", Id(NextRowid("categories")), 1, "")
    /\ UNCHANGED <<suppliers, products, inventory_transactions, foreign_keys,
                   connected, now, main, pending>>

create_category(name, description) ==
    /\ IF ~connected
       THEN /\ Returns("create_category", None, 1, ClosedMessage)
            /\ UNCHANGED <<categories, sqlite_sequence>>
       ELSE IF name = NullText
       THEN /\ Returns("create_category", None, 1, "NOT NULL constraint failed")
            /\ UNCHANGED <<categories, sqlite_sequence>>
       ELSE IF ~UniqueNameOk(name, NULL)
       THEN /\ Returns("create_category", None, 1, "UNIQUE constraint failed")
            /\ UNCHANGED <<categories, sqlite_sequence>>
       ELSE /\ categories' = categories \cup
                   {[id |-> NextRowid("categories"), name |-> name,
                     description |-> description]}
            /\ sqlite_sequence' = Bump("categories")
            /\ Returns("create_category", Id(NextRowid("categories")), 1, "")
    /\ UNCHANGED <<suppliers, products, inventory_transactions, foreign_keys,
                   connected, now, main, pending>>

\* A read by id returns <<the row>>, or Absent (Python None) when no row matches.
get_category_by_id(category_id) ==
    IF \E c \in categories : c.id = category_id
    THEN <<CHOOSE c \in categories : c.id = category_id>>
    ELSE Absent

update_category(category_id, name, description) ==
    /\ IF ~connected
       THEN /\ Returns("update_category", False, 1, ClosedMessage)
            /\ UNCHANGED categories
       ELSE IF \A c \in categories : c.id # category_id
       THEN /\ Returns("update_category", False, 1, "")
            /\ UNCHANGED categories
       ELSE IF name = NullText
       THEN /\ Returns("update_category", False, 1, "NOT NULL constraint failed")
            /\ UNCHANGED categories
       ELSE IF ~UniqueNameOk(name, category_id)
       THEN /\ Returns("update_category", False, 1, "UNIQUE constraint failed")
            /\ UNCHANGED categories
       ELSE /\ categories' = {c \in categories : c.id # category_id} \cup
                   {[id |-> category_id, name |-> name, description |-> description]}
            /\ Returns("update_category", True, 1, "")
    /\ UNCHANGED <<suppliers, products, inventory_transactions, sqlite_sequence,
                   foreign_keys, connected, now, main, pending>>

\* Mutant: DELETE ... WHERE id >= ?, which also takes the later rows.
delete_category_from(category_id) ==
    /\ IF ~connected
       THEN /\ Returns("delete_category", False, 1, ClosedMessage)
            /\ UNCHANGED categories
       ELSE IF \E p \in products : p.category_id = category_id
       THEN /\ Returns("delete_category", False, 1,
                       "Cannot delete category: Products are using this category")
            /\ UNCHANGED categories
       ELSE IF \A c \in categories : c.id < category_id
       THEN /\ Returns("delete_category", False, 2, "")
            /\ UNCHANGED categories
       ELSE IF \E c \in categories :
                   c.id >= category_id /\ ~CategoryUnreferenced(c.id)
       THEN /\ Returns("delete_category", False, 2, "FOREIGN KEY constraint failed")
            /\ UNCHANGED categories
       ELSE /\ categories' = {c \in categories : c.id < category_id}
            /\ Returns("delete_category", True, 2, "")
    /\ UNCHANGED <<suppliers, products, inventory_transactions, sqlite_sequence,
                   foreign_keys, connected, now, main, pending>>

delete_category(category_id) ==
    /\ IF ~connected
       THEN /\ Returns("delete_category", False, 1, ClosedMessage)
            /\ UNCHANGED categories
       ELSE IF \E p \in products : p.category_id = category_id
       THEN /\ Returns("delete_category", False, 1,
                       "Cannot delete category: Products are using this category")
            /\ UNCHANGED categories
       ELSE IF \A c \in categories : c.id # category_id
       THEN /\ Returns("delete_category", False, 2, "")
            /\ UNCHANGED categories
       ELSE IF ~CategoryUnreferenced(category_id)
       THEN /\ Returns("delete_category", False, 2, "FOREIGN KEY constraint failed")
            /\ UNCHANGED categories
       ELSE /\ categories' = {c \in categories : c.id # category_id}
            /\ Returns("delete_category", True, 2, "")
    /\ UNCHANGED <<suppliers, products, inventory_transactions, sqlite_sequence,
                   foreign_keys, connected, now, main, pending>>

\* ------------------------------------------------------------ suppliers
\* Mutant: the values bound to the columns in another order.
create_supplier_swapped(name, contact_info, address) ==
    /\ IF ~connected
       THEN /\ Returns("create_supplier", None, 1, ClosedMessage)
            /\ UNCHANGED <<suppliers, sqlite_sequence>>
       ELSE IF name = NullText
       THEN /\ Returns("create_supplier", None, 1, "NOT NULL constraint failed")
            /\ UNCHANGED <<suppliers, sqlite_sequence>>
       ELSE /\ suppliers' = suppliers \cup
                   {[id |-> NextRowid("suppliers"), name |-> name,
                     contact_info |-> address, address |-> contact_info]}
            /\ sqlite_sequence' = Bump("suppliers")
            /\ Returns("create_supplier", Id(NextRowid("suppliers")), 1, "")
    /\ UNCHANGED <<categories, products, inventory_transactions, foreign_keys,
                   connected, now, main, pending>>

create_supplier(name, contact_info, address) ==
    /\ IF ~connected
       THEN /\ Returns("create_supplier", None, 1, ClosedMessage)
            /\ UNCHANGED <<suppliers, sqlite_sequence>>
       ELSE IF name = NullText
       THEN /\ Returns("create_supplier", None, 1, "NOT NULL constraint failed")
            /\ UNCHANGED <<suppliers, sqlite_sequence>>
       ELSE /\ suppliers' = suppliers \cup
                   {[id |-> NextRowid("suppliers"), name |-> name,
                     contact_info |-> contact_info, address |-> address]}
            /\ sqlite_sequence' = Bump("suppliers")
            /\ Returns("create_supplier", Id(NextRowid("suppliers")), 1, "")
    /\ UNCHANGED <<categories, products, inventory_transactions, foreign_keys,
                   connected, now, main, pending>>

get_supplier_by_id(supplier_id) ==
    IF \E s \in suppliers : s.id = supplier_id
    THEN <<CHOOSE s \in suppliers : s.id = supplier_id>>
    ELSE Absent

\* Mutant: return True in place of return rowcount > 0.
update_supplier_done(supplier_id, name, contact_info, address) ==
    /\ IF ~connected
       THEN /\ Returns("update_supplier", False, 1, ClosedMessage)
            /\ UNCHANGED suppliers
       ELSE IF \A s \in suppliers : s.id # supplier_id
       THEN /\ Returns("update_supplier", True, 1, "")
            /\ UNCHANGED suppliers
       ELSE IF name = NullText
       THEN /\ Returns("update_supplier", False, 1, "NOT NULL constraint failed")
            /\ UNCHANGED suppliers
       ELSE /\ suppliers' = {s \in suppliers : s.id # supplier_id} \cup
                   {[id |-> supplier_id, name |-> name,
                     contact_info |-> contact_info, address |-> address]}
            /\ Returns("update_supplier", True, 1, "")
    /\ UNCHANGED <<categories, products, inventory_transactions, sqlite_sequence,
                   foreign_keys, connected, now, main, pending>>

update_supplier(supplier_id, name, contact_info, address) ==
    /\ IF ~connected
       THEN /\ Returns("update_supplier", False, 1, ClosedMessage)
            /\ UNCHANGED suppliers
       ELSE IF \A s \in suppliers : s.id # supplier_id
       THEN /\ Returns("update_supplier", False, 1, "")
            /\ UNCHANGED suppliers
       ELSE IF name = NullText
       THEN /\ Returns("update_supplier", False, 1, "NOT NULL constraint failed")
            /\ UNCHANGED suppliers
       ELSE /\ suppliers' = {s \in suppliers : s.id # supplier_id} \cup
                   {[id |-> supplier_id, name |-> name,
                     contact_info |-> contact_info, address |-> address]}
            /\ Returns("update_supplier", True, 1, "")
    /\ UNCHANGED <<categories, products, inventory_transactions, sqlite_sequence,
                   foreign_keys, connected, now, main, pending>>

\* Mutant: the DELETE without the count of the transactions before it.
delete_supplier_unchecked(supplier_id) ==
    /\ IF ~connected
       THEN /\ Returns("delete_supplier", False, 1, ClosedMessage)
            /\ UNCHANGED suppliers
       ELSE IF \A s \in suppliers : s.id # supplier_id
       THEN /\ Returns("delete_supplier", False, 2, "")
            /\ UNCHANGED suppliers
       ELSE IF ~SupplierUnreferenced(supplier_id)
       THEN /\ Returns("delete_supplier", False, 2, "FOREIGN KEY constraint failed")
            /\ UNCHANGED suppliers
       ELSE /\ suppliers' = {s \in suppliers : s.id # supplier_id}
            /\ Returns("delete_supplier", True, 2, "")
    /\ UNCHANGED <<categories, products, inventory_transactions, sqlite_sequence,
                   foreign_keys, connected, now, main, pending>>

delete_supplier(supplier_id) ==
    /\ IF ~connected
       THEN /\ Returns("delete_supplier", False, 1, ClosedMessage)
            /\ UNCHANGED suppliers
       ELSE IF \E t \in inventory_transactions : t.supplier_id = supplier_id
       THEN /\ Returns("delete_supplier", False, 1,
                       "Cannot delete supplier: Transactions are using this supplier")
            /\ UNCHANGED suppliers
       ELSE IF \A s \in suppliers : s.id # supplier_id
       THEN /\ Returns("delete_supplier", False, 2, "")
            /\ UNCHANGED suppliers
       ELSE IF ~SupplierUnreferenced(supplier_id)
       THEN /\ Returns("delete_supplier", False, 2, "FOREIGN KEY constraint failed")
            /\ UNCHANGED suppliers
       ELSE /\ suppliers' = {s \in suppliers : s.id # supplier_id}
            /\ Returns("delete_supplier", True, 2, "")
    /\ UNCHANGED <<categories, products, inventory_transactions, sqlite_sequence,
                   foreign_keys, connected, now, main, pending>>

\* ------------------------------------------------------------ products
create_product(name, description, category_id, price, reorder_level) ==
    /\ IF ~connected
       THEN /\ Returns("create_product", None, 1, ClosedMessage)
            /\ UNCHANGED <<products, sqlite_sequence>>
       ELSE IF name = NullText
       THEN /\ Returns("create_product", None, 1, "NOT NULL constraint failed")
            /\ UNCHANGED <<products, sqlite_sequence>>
       ELSE IF ~CategoryFkOk(category_id)
       THEN /\ Returns("create_product", None, 1, "FOREIGN KEY constraint failed")
            /\ UNCHANGED <<products, sqlite_sequence>>
       ELSE /\ products' = products \cup
                   {[id |-> NextRowid("products"), name |-> name,
                     description |-> description, category_id |-> category_id,
                     price |-> price, reorder_level |-> reorder_level]}
            /\ sqlite_sequence' = Bump("products")
            /\ Returns("create_product", Id(NextRowid("products")), 1, "")
    /\ UNCHANGED <<categories, suppliers, inventory_transactions, foreign_keys,
                   connected, now, main, pending>>

\* c.name of products p LEFT JOIN categories c ON p.category_id = c.id
CategoryNameOf(p) ==
    IF \E c \in categories : c.id = p.category_id
    THEN (CHOOSE c \in categories : c.id = p.category_id).name
    ELSE NullText

get_product_by_id(product_id) ==
    IF \E p \in products : p.id = product_id
    THEN LET p == CHOOSE x \in products : x.id = product_id
         IN <<[id |-> p.id, name |-> p.name, description |-> p.description,
               category_id |-> p.category_id, price |-> p.price,
               reorder_level |-> p.reorder_level,
               category_name |-> CategoryNameOf(p)]>>
    ELSE Absent

update_product(product_id, name, description, category_id, price, reorder_level) ==
    /\ IF ~connected
       THEN /\ Returns("update_product", False, 1, ClosedMessage)
            /\ UNCHANGED products
       ELSE IF \A p \in products : p.id # product_id
       THEN /\ Returns("update_product", False, 1, "")
            /\ UNCHANGED products
       ELSE IF name = NullText
       THEN /\ Returns("update_product", False, 1, "NOT NULL constraint failed")
            /\ UNCHANGED products
       ELSE IF ~CategoryFkOk(category_id)
       THEN /\ Returns("update_product", False, 1, "FOREIGN KEY constraint failed")
            /\ UNCHANGED products
       ELSE /\ products' = {p \in products : p.id # product_id} \cup
                   {[id |-> product_id, name |-> name,
                     description |-> description, category_id |-> category_id,
                     price |-> price, reorder_level |-> reorder_level]}
            /\ Returns("update_product", True, 1, "")
    /\ UNCHANGED <<categories, suppliers, inventory_transactions, sqlite_sequence,
                   foreign_keys, connected, now, main, pending>>

\* Mutant: the delete cascades to the product's transactions.
delete_product_cascade(product_id) ==
    /\ IF ~connected
       THEN /\ Returns("delete_product", False, 1, ClosedMessage)
            /\ UNCHANGED <<products, inventory_transactions>>
       ELSE IF \A p \in products : p.id # product_id
       THEN /\ Returns("delete_product", False, 2, "")
            /\ UNCHANGED <<products, inventory_transactions>>
       ELSE /\ inventory_transactions' =
                   {t \in inventory_transactions : t.product_id # product_id}
            /\ products' = {p \in products : p.id # product_id}
            /\ Returns("delete_product", True, 2, "")
    /\ UNCHANGED <<categories, suppliers, sqlite_sequence, foreign_keys, connected, now, main, pending>>

delete_product(product_id) ==
    /\ IF ~connected
       THEN /\ Returns("delete_product", False, 1, ClosedMessage)
            /\ UNCHANGED products
       ELSE IF \E t \in inventory_transactions : t.product_id = product_id
       THEN /\ Returns("delete_product", False, 1,
                       "Cannot delete product: Transactions exist for this product")
            /\ UNCHANGED products
       ELSE IF \A p \in products : p.id # product_id
       THEN /\ Returns("delete_product", False, 2, "")
            /\ UNCHANGED products
       ELSE IF ~ProductUnreferenced(product_id)
       THEN /\ Returns("delete_product", False, 2, "FOREIGN KEY constraint failed")
            /\ UNCHANGED products
       ELSE /\ products' = {p \in products : p.id # product_id}
            /\ Returns("delete_product", True, 2, "")
    /\ UNCHANGED <<categories, suppliers, inventory_transactions, sqlite_sequence,
                   foreign_keys, connected, now, main, pending>>

\* ------------------------------------------------------------ transactions
\* Mutant: the validation compares without regard to case.
ValidTransactionTypeAnyCase(transaction_type) ==
    transaction_type \in {"IN", "OUT", "ADJUSTMENT", "in"}

\* transaction_type not in ['IN', 'OUT', 'ADJUSTMENT'] raises ValueError
\* before any statement reaches the store.
ValidTransactionType(transaction_type) ==
    transaction_type \in {"IN", "OUT", "ADJUSTMENT"}

\* Mutant: an OUT of more than the product has in stock is refused.
StockBefore(product_id) ==
    LET Sum[ts \in SUBSET inventory_transactions] ==
            IF ts = {} THEN 0
            ELSE LET t == CHOOSE x \in ts : TRUE
                 IN (IF t.transaction_type = "IN" THEN t.quantity
                     ELSE IF t.transaction_type = "OUT" THEN 0 - t.quantity
                     ELSE 0) + Sum[ts \ {t}]
    IN Sum[{t \in inventory_transactions : t.product_id = product_id}]

create_transaction_in_stock(product_id, transaction_type, quantity, supplier_id, notes) ==
    /\ IF ~ValidTransactionType(transaction_type)
       THEN /\ Returns("create_transaction", None, 0, "ValueError")
            /\ UNCHANGED <<inventory_transactions, sqlite_sequence>>
       ELSE IF ~connected
       THEN /\ Returns("create_transaction", None, 1, ClosedMessage)
            /\ UNCHANGED <<inventory_transactions, sqlite_sequence>>
       ELSE IF transaction_type = "OUT" /\ quantity > StockBefore(product_id)
       THEN /\ Returns("create_transaction", None, 0, "ValueError")
            /\ UNCHANGED <<inventory_transactions, sqlite_sequence>>
       ELSE IF ~TypeCheckOk(transaction_type)
       THEN /\ Returns("create_transaction", None, 1, "CHECK constraint failed")
            /\ UNCHANGED <<inventory_transactions, sqlite_sequence>>
       ELSE IF ~(ProductFkOk(product_id) /\ SupplierFkOk(supplier_id))
       THEN /\ Returns("create_transaction", None, 1, "FOREIGN KEY constraint failed")
            /\ UNCHANGED <<inventory_transactions, sqlite_sequence>>
       ELSE /\ inventory_transactions' = inventory_transactions \cup
                   {[id |-> NextRowid("inventory_transactions"),
                     product_id |-> product_id,
                     transaction_type |-> transaction_type,
                     quantity |-> quantity, date |-> now,
                     supplier_id |-> supplier_id, notes |-> notes]}
            /\ sqlite_sequence' = Bump("inventory_transactions")
            /\ Returns("create_transaction",
                       Id(NextRowid("inventory_transactions")), 1, "")
    /\ UNCHANGED <<categories, suppliers, products, foreign_keys, connected, now, main, pending>>

create_transaction(product_id, transaction_type, quantity, supplier_id, notes) ==
    /\ IF ~ValidTransactionType(transaction_type)
       THEN /\ Returns("create_transaction", None, 0, "ValueError")
            /\ UNCHANGED <<inventory_transactions, sqlite_sequence>>
       ELSE IF ~connected
       THEN /\ Returns("create_transaction", None, 1, ClosedMessage)
            /\ UNCHANGED <<inventory_transactions, sqlite_sequence>>
       ELSE IF ~TypeCheckOk(transaction_type)
       THEN /\ Returns("create_transaction", None, 1, "CHECK constraint failed")
            /\ UNCHANGED <<inventory_transactions, sqlite_sequence>>
       ELSE IF ~(ProductFkOk(product_id) /\ SupplierFkOk(supplier_id))
       THEN /\ Returns("create_transaction", None, 1, "FOREIGN KEY constraint failed")
            /\ UNCHANGED <<inventory_transactions, sqlite_sequence>>
       ELSE /\ inventory_transactions' = inventory_transactions \cup
                   {[id |-> NextRowid("inventory_transactions"),
                     product_id |-> product_id,
                     transaction_type |-> transaction_type,
                     quantity |-> quantity, date |-> now,
                     supplier_id |-> supplier_id, notes |-> notes]}
            /\ sqlite_sequence' = Bump("inventory_transactions")
            /\ Returns("create_transaction",
                       Id(NextRowid("inventory_transactions")), 1, "")
    /\ UNCHANGED <<categories, suppliers, products, foreign_keys, connected, now, main, pending>>

\* The INNER JOIN with products drops a transaction whose product is missing.
get_transaction_by_id(transaction_id) ==
    IF \E t \in inventory_transactions :
           t.id = transaction_id /\ \E p \in products : p.id = t.product_id
    THEN LET t == CHOOSE x \in inventory_transactions : x.id = transaction_id
         IN <<[id |-> t.id, product_id |-> t.product_id,
               transaction_type |-> t.transaction_type,
               quantity |-> t.quantity, date |-> t.date,
               supplier_id |-> t.supplier_id, notes |-> t.notes,
               product_name |->
                   (CHOOSE p \in products : p.id = t.product_id).name,
               supplier_name |->
                   IF \E s \in suppliers : s.id = t.supplier_id
                   THEN (CHOOSE s \in suppliers : s.id = t.supplier_id).name
                   ELSE NullText]>>
    ELSE Absent

update_transaction(transaction_id, product_id, transaction_type, quantity, supplier_id, notes) ==
    /\ IF ~ValidTransactionType(transaction_type)
       THEN /\ Returns("update_transaction", False, 0, "ValueError")
            /\ UNCHANGED inventory_transactions
       ELSE IF ~connected
       THEN /\ Returns("update_transaction", False, 1, ClosedMessage)
            /\ UNCHANGED inventory_transactions
       ELSE IF \A t \in inventory_transactions : t.id # transaction_id
       THEN /\ Returns("update_transaction", False, 1, "")
            /\ UNCHANGED inventory_transactions
       ELSE IF ~TypeCheckOk(transaction_type)
       THEN /\ Returns("update_transaction", False, 1, "CHECK constraint failed")
            /\ UNCHANGED inventory_transactions
       ELSE IF ~(ProductFkOk(product_id) /\ SupplierFkOk(supplier_id))
       THEN /\ Returns("update_transaction", False, 1, "FOREIGN KEY constraint failed")
            /\ UNCHANGED inventory_transactions
       ELSE /\ inventory_transactions' =
                   {t \in inventory_transactions : t.id # transaction_id} \cup
                   {[id |-> transaction_id, product_id |-> product_id,
                     transaction_type |-> transaction_type,
                     quantity |-> quantity,
                     date |-> (CHOOSE t \in inventory_transactions :
                                   t.id = transaction_id).date,
                     supplier_id |-> supplier_id, notes |-> notes]}
            /\ Returns("update_transaction", True, 1, "")
    /\ UNCHANGED <<categories, suppliers, products, sqlite_sequence,
                   foreign_keys, connected, now, main, pending>>

\* Mutant: DELETE ... WHERE id <= ?
delete_transaction_upto(transaction_id) ==
    /\ IF ~connected
       THEN /\ Returns("delete_transaction", False, 1, ClosedMessage)
            /\ UNCHANGED inventory_transactions
       ELSE IF \A t \in inventory_transactions : t.id # transaction_id
       THEN /\ Returns("delete_transaction", False, 1, "")
            /\ UNCHANGED inventory_transactions
       ELSE /\ inventory_transactions' =
                   {t \in inventory_transactions : t.id > transaction_id}
            /\ Returns("delete_transaction", True, 1, "")
    /\ UNCHANGED <<categories, suppliers, products, sqlite_sequence,
                   foreign_keys, connected, now, main, pending>>

delete_transaction(transaction_id) ==
    /\ IF ~connected
       THEN /\ Returns("delete_transaction", False, 1, ClosedMessage)
            /\ UNCHANGED inventory_transactions
       ELSE IF \A t \in inventory_transactions : t.id # transaction_id
       THEN /\ Returns("delete_transaction", False, 1, "")
            /\ UNCHANGED inventory_transactions
       ELSE /\ inventory_transactions' =
                   {t \in inventory_transactions : t.id # transaction_id}
            /\ Returns("delete_transaction", True, 1, "")
    /\ UNCHANGED <<categories, suppliers, products, sqlite_sequence,
                   foreign_keys, connected, now, main, pending>>

\* ------------------------------------------------------------ sample data
SampleCategories ==
    <<[name |-> "Electronics", description |-> "Electronic devices and components"],
      [name |-> "Clothing", description |-> "Apparel and accessories"],
      [name |-> "Books", description |-> "Books and publications"],
      [name |-> "Home & Garden",
       description |-> "Home improvement and garden supplies"]>>

SampleSuppliers ==
    <<[name |-> "TechCorp Inc.", contact_info |-> "contact@techcorp.com",
       address |-> "123 Tech Street, Silicon Valley, CA"],
      [name |-> "Fashion Forward", contact_info |-> "orders@fashionforward.com",
       address |-> "456 Fashion Ave, New York, NY"],
      [name |-> "BookWorld", contact_info |-> "sales@bookworld.com",
       address |-> "789 Library Lane, Boston, MA"],
      [name |-> "Home Depot", contact_info |-> "orders@homedepot.com",
       address |-> "321 Hardware Road, Atlanta, GA"]>>

SampleProducts ==
    <<[name |-> "Laptop", description |-> "High-performance laptop",
       category_id |-> 1, price |-> 99999, reorder_level |-> 5],
      [name |-> "T-Shirt", description |-> "Cotton t-shirt",
       category_id |-> 2, price |-> 1999, reorder_level |-> 20],
      [name |-> "Python Programming Book",
       description |-> "Learn Python programming",
       category_id |-> 3, price |-> 4999, reorder_level |-> 10],
      [name |-> "Garden Hose", description |-> "50ft garden hose",
       category_id |-> 4, price |-> 2999, reorder_level |-> 15]>>

SampleTransactions ==
    <<[product_id |-> 1, transaction_type |-> "IN", quantity |-> 10,
       supplier_id |-> 1, notes |-> "Initial stock"],
      [product_id |-> 2, transaction_type |-> "IN", quantity |-> 50,
       supplier_id |-> 2, notes |-> "Initial stock"],
      [product_id |-> 3, transaction_type |-> "IN", quantity |-> 25,
       supplier_id |-> 3, notes |-> "Initial stock"],
      [product_id |-> 4, transaction_type |-> "IN", quantity |-> 30,
       supplier_id |-> 4, notes |-> "Initial stock"],
      [product_id |-> 1, transaction_type |-> "OUT", quantity |-> 2,
       supplier_id |-> NULL, notes |-> "Customer sale"],
      [product_id |-> 2, transaction_type |-> "OUT", quantity |-> 5,
       supplier_id |-> NULL, notes |-> "Customer sale"]>>

\* INSERT OR IGNORE INTO categories, row i onwards: a row whose name is taken
\* is skipped, and the skipped insert still uses up a rowid.
RECURSIVE SeedCategories(_, _, _)
SeedCategories(rows, seq, i) ==
    IF i > Len(SampleCategories) THEN [rows |-> rows, seq |-> seq]
    ELSE IF \E c \in rows : c.name = SampleCategories[i].name
    THEN SeedCategories(rows, seq + 1, i + 1)
    ELSE SeedCategories(rows \cup {[id |-> seq + 1,
                                     name |-> SampleCategories[i].name,
                                     description |-> SampleCategories[i].description]},
                        seq + 1, i + 1)

\* INSERT OR IGNORE INTO suppliers, row i onwards: nothing is unique, every
\* row goes in.
RECURSIVE SeedSuppliers(_, _, _)
SeedSuppliers(rows, seq, i) ==
    IF i > Len(SampleSuppliers) THEN [rows |-> rows, seq |-> seq]
    ELSE SeedSuppliers(rows \cup {[id |-> seq + 1,
                                    name |-> SampleSuppliers[i].name,
                                    contact_info |-> SampleSuppliers[i].contact_info,
                                    address |-> SampleSuppliers[i].address]},
                       seq + 1, i + 1)

\* INSERT OR IGNORE INTO products, row i onwards, against the categories cats:
\* OR IGNORE does not cover a foreign key, whose violation raises and ends
\* the loading. n counts the statements executed.
RECURSIVE SeedProducts(_, _, _, _)
SeedProducts(rows, seq, i, cats) ==
    IF i > Len(SampleProducts)
    THEN [rows |-> rows, seq |-> seq, ok |-> TRUE, n |-> i - 1]
    ELSE IF foreign_keys /\ \A c \in cats : c.id # SampleProducts[i].category_id
    THEN [rows |-> rows, seq |-> seq, ok |-> FALSE, n |-> i]
    ELSE SeedProducts(rows \cup {[id |-> seq + 1,
                                   name |-> SampleProducts[i].name,
                                   description |-> SampleProducts[i].description,
                                   category_id |-> SampleProducts[i].category_id,
                                   price |-> SampleProducts[i].price,
                                   reorder_level |-> SampleProducts[i].reorder_level]},
                      seq + 1, i + 1, cats)

\* INSERT OR IGNORE INTO inventory_transactions, row i onwards, against the
\* products prods and the suppliers sups.
RECURSIVE SeedTransactions(_, _, _, _, _)
SeedTransactions(rows, seq, i, prods, sups) ==
    IF i > Len(SampleTransactions)
    THEN [rows |-> rows, seq |-> seq, ok |-> TRUE, n |-> i - 1]
    ELSE IF /\ foreign_keys
            /\ \/ \A p \in prods : p.id # SampleTransactions[i].product_id
               \/ /\ SampleTransactions[i].supplier_id # NULL
                  /\ \A s \in sups : s.id # SampleTransactions[i].supplier_id
    THEN [rows |-> rows, seq |-> seq, ok |-> FALSE, n |-> i]
    ELSE SeedTransactions(
             rows \cup {[id |-> seq + 1,
                         product_id |-> SampleTransactions[i].product_id,
                         transaction_type |-> SampleTransactions[i].transaction_type,
                         quantity |-> SampleTransactions[i].quantity,
                         date |-> now,
                         supplier_id |-> SampleTransactions[i].supplier_id,
                         notes |-> SampleTransactions[i].notes]},
             seq + 1, i + 1, prods, sups)

\* The rows a raising seed_sample_data inserted before it raised stay in the
\* connection's open transaction: the connection sees them.
seed_sample_data ==
    LET c == SeedCategories(categories, sqlite_sequence["categories"], 1)
        s == SeedSuppliers(suppliers, sqlite_sequence["suppliers"], 1)
        p == SeedProducts(products, sqlite_sequence["products"], 1, c.rows)
        t == IF p.ok
             THEN SeedTransactions(inventory_transactions,
                                   sqlite_sequence["inventory_transactions"], 1,
                                   p.rows, s.rows)
             ELSE [rows |-> inventory_transactions,
                   seq |-> sqlite_sequence["inventory_transactions"],
                   ok |-> FALSE, n |-> 0]
    IN /\ IF ~connected
          THEN /\ Returns("seed_sample_data", Raised, 1, ClosedMessage)
               /\ UNCHANGED store
          ELSE /\ categories' = c.rows
               /\ suppliers' = s.rows
               /\ products' = p.rows
               /\ inventory_transactions' = t.rows
               /\ sqlite_sequence' =
                      [x \in DOMAIN sqlite_sequence |->
                           CASE x = "categories" -> c.seq
                             [] x = "suppliers" -> s.seq
                             [] x = "products" -> p.seq
                             [] OTHER -> t.seq]
               /\ IF t.ok
                  THEN Returns("seed_sample_data", None,
                               Len(SampleCategories) + Len(SampleSuppliers)
                                   + p.n + t.n, "")
                  ELSE Returns("seed_sample_data", Raised,
                               Len(SampleCategories) + Len(SampleSuppliers)
                                   + p.n + t.n,
                               "FOREIGN KEY constraint failed")
       /\ UNCHANGED <<foreign_keys, connected, now, main, pending>>

\* ------------------------------------------------------------ derived stock
\* The total of the second components of a set of <<row id, term>> pairs.
RECURSIVE Total(_)
Total(terms) ==
    IF terms = {} THEN 0
    ELSE LET x == CHOOSE y \in terms : TRUE
         IN x[2] + Total(terms \ {x})

\* SQL SUM: NULL (<<>>) over no rows, else <<the total>>.
SqlSum(terms) == IF terms = {} THEN <<>> ELSE <<Total(terms)>>

\* SQL COALESCE(v, d).
Coalesce(v, d) == IF v = <<>> THEN d ELSE v[1]

\* Mutant: an ADJUSTMENT is counted as stock coming in.
CaseQuantityAdjusting(t, kind) ==
    IF t.transaction_type = kind
           \/ (kind = "IN" /\ t.transaction_type = "ADJUSTMENT")
    THEN t.quantity ELSE 0

\* CASE WHEN transaction_type = kind THEN quantity ELSE 0 END
CaseQuantity(t, kind) == IF t.transaction_type = kind THEN t.quantity ELSE 0

\* Mutant: the query without its WHERE product_id = ?.
get_product_stock_all(product_id) ==
    LET rows == inventory_transactions
    IN Coalesce(SqlSum({<<t.id, CaseQuantity(t, "IN")>> : t \in rows}), 0)
       - Coalesce(SqlSum({<<t.id, CaseQuantity(t, "OUT")>> : t \in rows}), 0)

get_product_stock(product_id) ==
    LET rows == {t \in inventory_transactions : t.product_id = product_id}
    IN Coalesce(SqlSum({<<t.id, CaseQuantity(t, "IN")>> : t \in rows}), 0)
       - Coalesce(SqlSum({<<t.id, CaseQuantity(t, "OUT")>> : t \in rows}), 0)

\* The all-NULL transaction a LEFT JOIN pads a product without transactions with.
NullTransaction ==
    [id |-> NULL, product_id |-> NULL, transaction_type |-> NullText,
     quantity |-> 0, date |-> 0, supplier_id |-> NULL, notes |-> NullText]

\* Mutant: an inner JOIN with inventory_transactions.
InventoryJoinInner ==
    UNION {{[p |-> p, category_name |-> CategoryNameOf(p), t |-> t] :
                t \in {t \in inventory_transactions : t.product_id = p.id}} :
           p \in products}

\* products p LEFT JOIN categories c LEFT JOIN inventory_transactions t
InventoryJoin ==
    UNION {LET ts == {t \in inventory_transactions : t.product_id = p.id}
           IN {[p |-> p, category_name |-> CategoryNameOf(p), t |-> t] :
                   t \in (IF ts = {} THEN {NullTransaction} ELSE ts)} :
           p \in products}

\* The GROUP BY key of a joined row.
InventoryGroup(j) ==
    [id |-> j.p.id, name |-> j.p.name, description |-> j.p.description,
     category_name |-> j.category_name, price |-> j.p.price,
     reorder_level |-> j.p.reorder_level]

\* Mutant: the column without its OUT term.
GroupStockIn(g) ==
    LET rows == {j \in InventoryJoin : InventoryGroup(j) = g}
    IN Coalesce(SqlSum({<<j.t.id, CaseQuantity(j.t, "IN")>> : j \in rows}), 0)

\* The current_stock column of one group.
GroupStock(g) ==
    LET rows == {j \in InventoryJoin : InventoryGroup(j) = g}
    IN Coalesce(SqlSum({<<j.t.id, CaseQuantity(j.t, "IN")>> : j \in rows}), 0)
       - Coalesce(SqlSum({<<j.t.id, CaseQuantity(j.t, "OUT")>> : j \in rows}), 0)

\* The rows of get_current_inventory (their order is by name).
get_current_inventory ==
    {[id |-> g.id, name |-> g.name, description |-> g.description,
      category_name |-> g.category_name, price |-> g.price,
      reorder_level |-> g.reorder_level, current_stock |-> GroupStock(g)] :
         g \in {InventoryGroup(j) : j \in InventoryJoin}}

\* ------------------------------------------------------------ text
\* The bytes (ASCII codes) of the TEXT values the callers use.
TextBytes ==
    ("Electronics" :> <<69, 108, 101, 99, 116, 114, 111, 110, 105, 99, 115>>) @@
    ("Books" :> <<66, 111, 111, 107, 115>>) @@
    ("Toys" :> <<84, 111, 121, 115>>) @@
    ("Clothing" :> <<67, 108, 111, 116, 104, 105, 110, 103>>) @@
    ("Home & Garden" :> <<72, 111, 109, 101, 32, 38, 32, 71, 97, 114, 100, 101, 110>>) @@
    ("TechCorp Inc." :> <<84, 101, 99, 104, 67, 111, 114, 112, 32, 73, 110, 99, 46>>) @@
    ("Fashion Forward" :> <<70, 97, 115, 104, 105, 111, 110, 32, 70, 111, 114, 119, 97, 114, 100>>) @@
    ("BookWorld" :> <<66, 111, 111, 107, 87, 111, 114, 108, 100>>) @@
    ("Home Depot" :> <<72, 111, 109, 101, 32, 68, 101, 112, 111, 116>>) @@
    ("Laptop" :> <<76, 97, 112, 116, 111, 112>>) @@
    ("T-Shirt" :> <<84, 45, 83, 104, 105, 114, 116>>) @@
    ("Python Programming Book" :> <<80, 121, 116, 104, 111, 110, 32, 80, 114, 111, 103, 114, 97, 109, 109, 105, 110, 103, 32, 66, 111, 111, 107>>) @@
    ("Garden Hose" :> <<71, 97, 114, 100, 101, 110, 32, 72, 111, 115, 101>>) @@
    ("Pen" :> <<80, 101, 110>>) @@
    ("pencil" :> <<112, 101, 110, 99, 105, 108>>) @@
    ("Ink_1" :> <<73, 110, 107, 95, 49>>) @@
    ("blue ink" :> <<98, 108, 117, 101, 32, 105, 110, 107>>) @@
    ("100% black" :> <<49, 48, 48, 37, 32, 98, 108, 97, 99, 107>>) @@
    ("Books and publications" :> <<66, 111, 111, 107, 115, 32, 97, 110, 100, 32, 112, 117, 98, 108, 105, 99, 97, 116, 105, 111, 110, 115>>) @@
    ("pen" :> <<112, 101, 110>>) @@
    ("PEN" :> <<80, 69, 78>>) @@
    ("_" :> <<95>>) @@
    ("%" :> <<37>>) @@
    ("x" :> <<120>>) @@
    ("" :> <<>>) @@
    ("e_" :> <<101, 95>>) @@
    ("INK" :> <<73, 78, 75>>)

Bytes(text) == TextBytes[text]

\* The BINARY collation of ORDER BY name: a before b, byte by byte (memcmp).
RECURSIVE BytesLess(_, _)
BytesLess(a, b) ==
    IF b = <<>> THEN FALSE
    ELSE IF a = <<>> THEN TRUE
    ELSE IF a[1] # b[1] THEN a[1] < b[1]
    ELSE BytesLess(Tail(a), Tail(b))

TextLess(a, b) == BytesLess(Bytes(a), Bytes(b))

\* LIKE folds the case of the ASCII letters only.
Lower(c) == IF c >= 65 /\ c <= 90 THEN c + 32 ELSE c

\* text LIKE pattern: % stands for any run of characters, _ for any one
\* character, any other character for itself without regard to case.
RECURSIVE Like(_, _)
Like(pattern, text) ==
    IF pattern = <<>> THEN text = <<>>
    ELSE IF pattern[1] = 37
    THEN \/ Like(Tail(pattern), text)
         \/ text # <<>> /\ Like(pattern, Tail(text))
    ELSE IF pattern[1] = 95
    THEN text # <<>> /\ Like(Tail(pattern), Tail(text))
    ELSE /\ text # <<>>
         /\ Lower(pattern[1]) = Lower(text[1])
         /\ Like(Tail(pattern), Tail(text))

\* ------------------------------------------------------------ ORDER BY, LIMIT
\* rank[r] is the number of rows that sort strictly before r. ORDER BY leaves
\* the order of rows of equal rank open: Orderings is the set of the lists the
\* query may return.
RECURSIVE OrderingsOf(_)
OrderingsOf(ranked) ==
    IF ranked = {} THEN {<<>>}
    ELSE UNION {{<<r[2]>> \o s : s \in OrderingsOf(ranked \ {r})} :
                r \in {x \in ranked : \A y \in ranked : x[1] <= y[1]}}

Orderings(rows, rank) == OrderingsOf({<<rank[r], r>> : r \in rows})

\* ORDER BY name (ascending).
ByName(rows) ==
    [r \in rows |-> Cardinality({x \in rows : TextLess(x.name, r.name)})]

\* LIMIT n: the first n rows; a negative n is no limit.
Limit(s, n) == IF n < 0 \/ n >= Len(s) THEN s ELSE SubSeq(s, 1, n)

\* ------------------------------------------------------------ stock reports
\* The row one group of the join yields.
InventoryRow(g) ==
    [id |-> g.id, name |-> g.name, description |-> g.description,
     category_name |-> g.category_name, price |-> g.price,
     reorder_level |-> g.reorder_level, current_stock |-> GroupStock(g)]

\* ORDER BY current_stock ASC
ByStock(rows) ==
    [r \in rows |-> Cardinality({x \in rows : x.current_stock < r.current_stock})]

\* Mutant: HAVING current_stock < p.reorder_level
get_low_stock_products_below ==
    LET rows == {r \in {InventoryRow(InventoryGroup(j)) : j \in InventoryJoin} :
                     r.current_stock < r.reorder_level}
    IN Orderings(rows, ByStock(rows))

\* The lists get_low_stock_products may return.
get_low_stock_products ==
    LET rows == {r \in {InventoryRow(InventoryGroup(j)) : j \in InventoryJoin} :
                     r.current_stock <= r.reorder_level}
    IN Orderings(rows, ByStock(rows))

\* LIMIT 5
TopLimit == 5

\* GROUP BY p.id, p.name, c.name, p.price
TopGroup(j) ==
    [id |-> j.p.id, name |-> j.p.name, category_name |-> j.category_name,
     price |-> j.p.price]

\* The row one group of the top-products query yields.
TopRow(g) ==
    LET rows == {j \in InventoryJoin : TopGroup(j) = g}
        current_stock ==
            Coalesce(SqlSum({<<j.t.id, CaseQuantity(j.t, "IN")>> : j \in rows}), 0)
            - Coalesce(SqlSum({<<j.t.id, CaseQuantity(j.t, "OUT")>> : j \in rows}), 0)
    IN [id |-> g.id, name |-> g.name, category_name |-> g.category_name,
        current_stock |-> current_stock, price |-> g.price,
        total_value |-> current_stock * g.price]

\* ORDER BY total_value DESC
ByTotalValueDesc(rows) ==
    [r \in rows |-> Cardinality({x \in rows : x.total_value > r.total_value})]

\* Mutant: the query without its HAVING current_stock > 0.
top_products_all ==
    LET rows == {TopRow(TopGroup(j)) : j \in InventoryJoin}
    IN {Limit(s, TopLimit) : s \in Orderings(rows, ByTotalValueDesc(rows))}

\* The lists top_products of generate_inventory_value_report may hold.
top_products ==
    LET rows == {r \in {TopRow(TopGroup(j)) : j \in InventoryJoin} :
                     r.current_stock > 0}
    IN {Limit(s, TopLimit) : s \in Orderings(rows, ByTotalValueDesc(rows))}

\* Python's v or d: d when v is None (<<>>) or zero.
PyOr(v, d) == IF v = <<>> \/ v = <<0>> THEN d ELSE v[1]

\* products p LEFT JOIN inventory_transactions t ON p.id = t.product_id
StockJoin ==
    UNION {LET ts == {t \in inventory_transactions : t.product_id = p.id}
           IN {[p |-> p, t |-> t] :
                   t \in (IF ts = {} THEN {NullTransaction} ELSE ts)} :
           p \in products}

\* Mutant: COALESCE(SUM(... 'IN' ...), 1)
StockByProductOne ==
    {[id |-> p.id, price |-> p.price,
      current_stock |->
          LET rows == {j \in StockJoin : j.p.id = p.id /\ j.p.price = p.price}
          IN Coalesce(SqlSum({<<j.t.id, CaseQuantity(j.t, "IN")>> : j \in rows}), 0)
             + (IF \A j \in rows : j.t = NullTransaction THEN 1 ELSE 0)
             - Coalesce(SqlSum({<<j.t.id, CaseQuantity(j.t, "OUT")>> : j \in rows}), 0)] :
         p \in {j.p : j \in StockJoin}}

\* The subquery of get_inventory_value: GROUP BY p.id, p.price.
StockByProduct ==
    {[id |-> p.id, price |-> p.price,
      current_stock |->
          LET rows == {j \in StockJoin : j.p.id = p.id /\ j.p.price = p.price}
          IN Coalesce(SqlSum({<<j.t.id, CaseQuantity(j.t, "IN")>> : j \in rows}), 0)
             - Coalesce(SqlSum({<<j.t.id, CaseQuantity(j.t, "OUT")>> : j \in rows}), 0)] :
         p \in {j.p : j \in StockJoin}}

\* The subquery stock of generate_category_report: GROUP BY p.id.
CategoryStock ==
    {[product_id |-> p.id,
      current_stock |->
          LET rows == {j \in StockJoin : j.p.id = p.id}
          IN Coalesce(SqlSum({<<j.t.id, CaseQuantity(j.t, "IN")>> : j \in rows}), 0)
             - Coalesce(SqlSum({<<j.t.id, CaseQuantity(j.t, "OUT")>> : j \in rows}), 0)] :
         p \in {j.p : j \in StockJoin}}

\* The row the group of category c yields: the aggregates over the products
\* joined to c, NULL (<<>>) where c has none.
CategoryRow(c) ==
    LET joined == {[p |-> p, stock |-> k] :
                       p \in {x \in products : x.category_id = c.id},
                       k \in CategoryStock}
        rows == {j \in joined : j.stock.product_id = j.p.id}
    IN [id |-> c.id, category_name |-> c.name,
        product_count |-> Cardinality({j.p.id : j \in rows}),
        total_stock |-> SqlSum({<<j.p.id, j.stock.current_stock>> : j \in rows}),
        avg_price |-> IF rows = {} THEN <<>>
                      ELSE <<Total({<<j.p.id, j.p.price>> : j \in rows}),
                             Cardinality(rows)>>,
        total_value |-> SqlSum({<<j.p.id, j.stock.current_stock * j.p.price>> :
                                    j \in rows})]

\* ORDER BY total_value DESC: NULL is the smallest value and comes last.
ByCategoryValueDesc(rows) ==
    [r \in rows |->
         Cardinality({x \in rows :
                          /\ x.total_value # <<>>
                          /\ \/ r.total_value = <<>>
                             \/ x.total_value[1] > r.total_value[1]})]

\* The line of the table made from one row of the query.
CategoryLine(category) ==
    [category_name |-> IF category.category_name = "" THEN "Uncategorized"
                       ELSE category.category_name,
     products |-> PyOr(<<category.product_count>>, 0),
     total_stock |-> PyOr(category.total_stock, 0),
     avg_price |-> IF category.avg_price = <<>> \/ category.avg_price[1] = 0
                   THEN <<0, 1>> ELSE category.avg_price,
     total_value |-> PyOr(category.total_value, 0)]

\* The tables generate_category_report may print (no line: the text
\* "No category data available.").
generate_category_report ==
    LET rows == {CategoryRow(c) : c \in categories}
    IN {[i \in 1 .. Len(s) |-> CategoryLine(s[i])] :
            s \in Orderings(rows, ByCategoryValueDesc(rows))}

\* Mutant: the subquery keeps only the products in stock.
get_inventory_value_in_stock ==
    LET sub == {r \in StockByProduct : r.current_stock > 0}
    IN [total_value |->
            PyOr(SqlSum({<<r.id, r.current_stock * r.price>> : r \in sub}), 0),
        avg_price |->
            IF sub = {} \/ Total({<<r.id, r.price>> : r \in sub}) = 0
            THEN [num |-> 0, den |-> 1]
            ELSE [num |-> Total({<<r.id, r.price>> : r \in sub}),
                  den |-> Cardinality(sub)],
        total_products |-> Cardinality(sub)]

\* SUM(current_stock * price), AVG(price) (a fraction) and COUNT(*) over the
\* subquery, each replaced by 0 when it is NULL or zero.
get_inventory_value ==
    LET sub == StockByProduct
    IN [total_value |->
            PyOr(SqlSum({<<r.id, r.current_stock * r.price>> : r \in sub}), 0),
        avg_price |->
            IF sub = {} \/ Total({<<r.id, r.price>> : r \in sub}) = 0
            THEN [num |-> 0, den |-> 1]
            ELSE [num |-> Total({<<r.id, r.price>> : r \in sub}),
                  den |-> Cardinality(sub)],
        total_products |-> Cardinality(sub)]

\* ------------------------------------------------------------ listings
\* The lists get_categories may return: SELECT * FROM categories ORDER BY name
get_categories == Orderings(categories, ByName(categories))

\* The lists get_suppliers may return.
get_suppliers == Orderings(suppliers, ByName(suppliers))

\* A row of SELECT p.*, c.name as category_name FROM products p LEFT JOIN
\* categories c ON p.category_id = c.id
ProductRow(p) ==
    [id |-> p.id, name |-> p.name, description |-> p.description,
     category_id |-> p.category_id, price |-> p.price,
     reorder_level |-> p.reorder_level, category_name |-> CategoryNameOf(p)]

\* The lists get_products may return.
get_products ==
    LET rows == {ProductRow(p) : p \in products}
    IN Orderings(rows, ByName(rows))

\* A row of SELECT t.*, p.name as product_name, s.name as supplier_name: the
\* INNER JOIN with products drops a transaction whose product is missing.
TransactionRows ==
    {[id |-> t.id, product_id |-> t.product_id,
      transaction_type |-> t.transaction_type, quantity |-> t.quantity,
      date |-> t.date, supplier_id |-> t.supplier_id, notes |-> t.notes,
      product_name |-> (CHOOSE p \in products : p.id = t.product_id).name,
      supplier_name |->
          IF \E x \in suppliers : x.id = t.supplier_id
          THEN (CHOOSE x \in suppliers : x.id = t.supplier_id).name
          ELSE NullText] :
         t \in {x \in inventory_transactions :
                    \E p \in products : p.id = x.product_id}}

\* ORDER BY t.date DESC
ByDateDesc(rows) ==
    [r \in rows |-> Cardinality({x \in rows : x.date > r.date})]

\* Mutant: the oldest transactions first.
get_transactions_oldest(limit) ==
    LET rows == TransactionRows
    IN {Limit(s, limit) :
            s \in Orderings(rows, [r \in rows |->
                                       Cardinality({x \in rows : x.date < r.date})])}

\* The lists get_transactions(limit) may return.
get_transactions(limit) ==
    LET rows == TransactionRows
    IN {Limit(s, limit) : s \in Orderings(rows, ByDateDesc(rows))}

\* search_pattern = f"%{search_term}%"
SearchPattern(search_term) == <<37>> \o Bytes(search_term) \o <<37>>

\* The lists search_products(search_term) may return:
\* WHERE p.name LIKE ? OR p.description LIKE ? ORDER BY p.name
search_products(search_term) ==
    LET rows == {ProductRow(p) :
                     p \in {x \in products :
                                \/ Like(SearchPattern(search_term), Bytes(x.name))
                                \/ /\ x.description # NullText
                                   /\ Like(SearchPattern(search_term),
                                           Bytes(x.description))}}
    IN Orderings(rows, ByName(rows))

\* ------------------------------------------------------------ connection
\* InventoryDatabase.close: the connection is closed, the tables stay.
close ==
    /\ connected' = FALSE
    /\ Returns("close", None, 0, "")
    /\ UNCHANGED <<store, foreign_keys, now, main, pending>>

\* A read operation of the Repository: it executes its query outside any
\* try/except, so what the store raises reaches the caller.
Read(name, value) ==
    /\ IF connected
       THEN Returns(name, [tag |-> "value", val |-> value], 1, "")
       ELSE Returns(name, Raised, 1, ClosedMessage)
    /\ UNCHANGED <<store, foreign_keys, connected, now, main, pending>>

\* ------------------------------------------------------------ a second process
\* The first statement of delete_category, delete_supplier or delete_product
\* run by a second process on its own connection: the count of the dependent
\* rows. A count above 0 ends the call; otherwise the call stands before its
\* DELETE.
delete_count(call, id) ==
    LET count == CASE call = "delete_category" ->
                          Cardinality({p \in products : p.category_id = id})
                   [] call = "delete_supplier" ->
                          Cardinality({t \in inventory_transactions :
                                           t.supplier_id = id})
                   [] OTHER ->
                          Cardinality({t \in inventory_transactions :
                                           t.product_id = id})
    IN /\ pending = NoCall
       /\ IF count > 0
          THEN /\ Returns(call, False, 1,
                          CASE call = "delete_category" ->
                                   "Cannot delete category: Products are using this category"
                            [] call = "delete_supplier" ->
                                   "Cannot delete supplier: Transactions are using this supplier"
                            [] OTHER ->
                                   "Cannot delete product: Transactions exist for this product")
               /\ UNCHANGED pending
          ELSE /\ pending' = [call |-> call, id |-> id, count |-> count]
               /\ UNCHANGED <<op, result, stmts, log>>
       /\ UNCHANGED <<store, foreign_keys, connected, now, main>>

\* Its second statement, the DELETE, and the commit. The store rejects it
\* when a row references the row to delete, and when the other connection
\* holds the write lock for longer than the timeout (locked).
delete_statement(locked) ==
    LET call == pending.call
        id == pending.id
        rows == CASE call = "delete_category" -> categories
                  [] call = "delete_supplier" -> suppliers
                  [] OTHER -> products
        unreferenced == CASE call = "delete_category" -> CategoryUnreferenced(id)
                          [] call = "delete_supplier" -> SupplierUnreferenced(id)
                          [] OTHER -> ProductUnreferenced(id)
        left == {r \in rows : r.id # id}
    IN /\ pending # NoCall
       /\ pending' = NoCall
       /\ IF locked
          THEN /\ Returns(call, False, 2, "database is locked")
               /\ UNCHANGED store
          ELSE IF \A r \in rows : r.id # id
          THEN /\ Returns(call, False, 2, "")
               /\ UNCHANGED store
          ELSE IF ~unreferenced
          THEN /\ Returns(call, False, 2, "FOREIGN KEY constraint failed")
               /\ UNCHANGED store
          ELSE /\ categories' = IF call = "delete_category" THEN left ELSE categories
               /\ suppliers' = IF call = "delete_supplier" THEN left ELSE suppliers
               /\ products' = IF call = "delete_product" THEN left ELSE products
               /\ UNCHANGED <<inventory_transactions, sqlite_sequence>>
               /\ Returns(call, True, 2, "")
       /\ UNCHANGED <<foreign_keys, connected, now, main>>

\* ------------------------------------------------------------ main
\* InventoryDatabase("inventory.db") begins: sqlite3.connect opens the
\* connection (or raises), then PRAGMA foreign_keys = ON runs (or raises).
main_connect(opened, ok) ==
    /\ main.pc = "start"
    /\ connected' = opened
    /\ main' = [main EXCEPT !.pc = IF opened /\ ok THEN "connected" ELSE "except"]
    /\ UNCHANGED <<store, foreign_keys, now, pending, op, result, stmts, log>>

\* create_tables runs (or raises); when __init__ returns, main binds db.
main_create_tables(ok) ==
    /\ main.pc = "connected"
    /\ main' = IF ok THEN [pc |-> "running", db |-> TRUE]
                     ELSE [main EXCEPT !.pc = "except"]
    /\ UNCHANGED <<store, foreign_keys, connected, now, pending, op, result, stmts,
                   log>>

\* if not products: db.seed_sample_data()
main_seed ==
    /\ main.pc = "running"
    /\ products = {}
    /\ seed_sample_data

\* ui.main_menu() returns: the user left the menu.
main_quit ==
    /\ main.pc = "running"
    /\ products # {}
    /\ main' = [main EXCEPT !.pc = "finally"]
    /\ UNCHANGED <<store, foreign_keys, connected, now, pending, op, result, stmts,
                   log>>

\* Something inside the try block raises: KeyboardInterrupt or an Exception.
main_raise(exception) ==
    /\ main.pc \in {"start", "connected", "running"}
    /\ main' = [main EXCEPT !.pc = exception]
    /\ UNCHANGED <<store, foreign_keys, connected, now, pending, op, result, stmts,
                   log>>

\* except KeyboardInterrupt / except Exception as e: print and go on.
main_except ==
    /\ main.pc \in {"interrupt", "except"}
    /\ main' = [main EXCEPT !.pc = "finally"]
    /\ UNCHANGED <<store, foreign_keys, connected, now, pending, op, result, stmts,
                   log>>

\* finally: if 'db' in locals(): db.close(). A connection no name is bound
\* to is closed only if the interpreter has collected it by now.
main_finally(collected) ==
    /\ main.pc = "finally"
    /\ connected' = IF main.db \/ collected THEN FALSE ELSE connected
    /\ main' = [main EXCEPT !.pc = "returned"]
    /\ UNCHANGED <<store, foreign_keys, now, pending, op, result, stmts, log>>

\* ------------------------------------------------------------ clock
\* A second passes on the store's clock (CURRENT_TIMESTAMP has that grain).
Tick ==
    /\ now' = now + 1
    /\ UNCHANGED <<store, foreign_keys, connected, main, pending, op, result, stmts,
                   log>>

\* ------------------------------------------------------------ specification
Init ==
    /\ categories = {}
    /\ suppliers = {}
    /\ products = {}
    /\ inventory_transactions = {}
    /\ sqlite_sequence = [t \in {"categories", "suppliers", "products",
                                 "inventory_transactions"} |-> 0]
    /\ foreign_keys = TRUE
    /\ connected = TRUE
    /\ now = 0
    /\ main = [pc |-> "menu", db |-> TRUE]
    /\ pending = NoCall
    /\ op = "init"
    /\ result = None
    /\ stmts = 0
    /\ log = ""

\* Ids a caller may name: those handed out so far, and one never handed out.
IdsUpTo(n) == 1 .. (n + 1)

\* --- Spec: every Repository operation, on all four tables.
Next ==
    \/ /\ sqlite_sequence["categories"] < MaxCategories
       /\ \E name \in CategoryNameInputs :
              create_category(name, NullText)
    \/ \E category_id \in IdsUpTo(MaxCategories), name \in CategoryNameInputs :
           update_category(category_id, name, NullText)
    \/ \E category_id \in IdsUpTo(MaxCategories) : delete_category(category_id)
    \/ /\ sqlite_sequence["suppliers"] < MaxSuppliers
       /\ \E name \in SupplierNames, contact_info \in ContactInfos,
             address \in Addresses :
              create_supplier(name, contact_info, address)
    \/ \E supplier_id \in IdsUpTo(MaxSuppliers), name \in SupplierNames,
          contact_info \in ContactInfos, address \in Addresses :
           update_supplier(supplier_id, name, contact_info, address)
    \/ \E supplier_id \in IdsUpTo(MaxSuppliers) : delete_supplier(supplier_id)
    \/ /\ sqlite_sequence["products"] < MaxProducts
       /\ \E name \in ProductNames, description \in ProductDescriptions,
             category_id \in IdsUpTo(MaxCategories) \cup {NULL},
             price \in Prices, reorder_level \in ReorderLevels :
              create_product(name, description, category_id, price, reorder_level)
    \/ \E product_id \in IdsUpTo(MaxProducts), name \in ProductNames,
          description \in ProductDescriptions,
          category_id \in IdsUpTo(MaxCategories) \cup {NULL},
          price \in Prices, reorder_level \in ReorderLevels :
           update_product(product_id, name, description, category_id, price,
                          reorder_level)
    \/ \E product_id \in IdsUpTo(MaxProducts) : delete_product(product_id)
    \/ /\ sqlite_sequence["inventory_transactions"] < MaxTransactions
       /\ \E product_id \in IdsUpTo(MaxProducts),
             transaction_type \in {"IN", "OUT", "INVALID"},
             supplier_id \in IdsUpTo(MaxSuppliers) \cup {NULL},
             notes \in Notes :
              create_transaction(product_id, transaction_type, 2,
                                 supplier_id, notes)
    \/ \E transaction_id \in IdsUpTo(MaxTransactions),
          product_id \in IdsUpTo(MaxProducts),
          transaction_type \in {"IN", "OUT", "INVALID"},
          supplier_id \in IdsUpTo(MaxSuppliers) \cup {NULL}, notes \in Notes :
           update_transaction(transaction_id, product_id, transaction_type,
                              2, supplier_id, notes)
    \/ \E transaction_id \in IdsUpTo(MaxTransactions) :
           delete_transaction(transaction_id)

Spec == Init /\ [][Next]_vars

\* --- SpecLedger: products without category and their ledger.
NextLedger ==
    \/ /\ sqlite_sequence["products"] < MaxLedgerProducts
       /\ \E name \in ProductNames, description \in ProductDescriptions,
             price \in Prices, reorder_level \in ReorderLevels :
              create_product(name, description, NULL, price, reorder_level)
    \/ \E product_id \in IdsUpTo(MaxLedgerProducts) : delete_product(product_id)
    \/ /\ sqlite_sequence["inventory_transactions"] < MaxLedger
       /\ \E product_id \in IdsUpTo(MaxLedgerProducts),
             transaction_type \in TransactionTypeInputs,
             quantity \in Quantities, notes \in Notes :
              create_transaction(product_id, transaction_type, quantity,
                                 NULL, notes)
    \/ \E transaction_id \in IdsUpTo(MaxLedger),
          product_id \in IdsUpTo(MaxLedgerProducts),
          transaction_type \in TransactionTypeInputs,
          quantity \in Quantities, notes \in Notes :
           update_transaction(transaction_id, product_id, transaction_type,
                              quantity, NULL, notes)
    \/ \E transaction_id \in IdsUpTo(MaxLedger) :
           delete_transaction(transaction_id)

SpecLedger == Init /\ [][NextLedger]_vars

\* --- SpecCategories: the category operations and the sample data.
\* A caller names the id of a row, or an id no row bears.
KnownCategoryIds ==
    {c.id : c \in categories} \cup {sqlite_sequence["categories"] + 1}

NextCategories ==
    \/ /\ sqlite_sequence["categories"] < MaxSeedCategories
       /\ \E name \in {"Electronics", "Toys", NullText},
             description \in Descriptions :
              create_category(name, description)
    \/ \E category_id \in KnownCategoryIds,
          name \in {"Electronics", "Toys", NullText},
          description \in Descriptions :
           update_category(category_id, name, description)
    \/ \E category_id \in KnownCategoryIds : delete_category(category_id)
    \/ /\ sqlite_sequence["suppliers"] < MaxSeeds * Len(SampleSuppliers)
       /\ seed_sample_data

SpecCategories == Init /\ [][NextCategories]_vars

\* --- SpecReports: products and their ledger, as the stock reports read them.
KnownIds(t, rows) == {r.id : r \in rows} \cup {sqlite_sequence[t] + 1}

NextReports ==
    \/ /\ sqlite_sequence["products"] < MaxReportProducts
       /\ \E price \in ReportPrices, reorder_level \in ReportReorderLevels :
              create_product("Laptop", NullText, NULL, price, reorder_level)
    \/ /\ sqlite_sequence["inventory_transactions"] < MaxReportTransactions
       /\ \E product_id \in KnownIds("products", products),
             transaction_type \in {"IN", "OUT"}, quantity \in ReportQuantities :
              create_transaction(product_id, transaction_type, quantity,
                                 NULL, NullText)

SpecReports == Init /\ [][NextReports]_vars

\* --- SpecConnection: the Repository on a connection that may be closed.
NextConnection ==
    \/ /\ sqlite_sequence["categories"] < MaxConnectionCategories
       /\ \E name \in CategoryNames : create_category(name, NullText)
    \/ \E category_id \in KnownIds("categories", categories),
          name \in CategoryNames :
           update_category(category_id, name, NullText)
    \/ \E category_id \in KnownIds("categories", categories) :
           delete_category(category_id)
    \/ /\ sqlite_sequence["products"] < MaxConnectionProducts
       /\ \E category_id \in KnownIds("categories", categories) :
              create_product("Laptop", NullText, category_id, 1999, 5)
    \/ \E category_id \in KnownIds("categories", categories) :
           Read("get_category_by_id", get_category_by_id(category_id))
    \/ \E s \in get_categories : Read("get_categories", s)
    \/ \E s \in get_transactions(DefaultLimit) : Read("get_transactions", s)
    \/ \E s \in search_products("x") : Read("search_products", s)
    \/ \E product_id \in KnownIds("products", products) :
           Read("get_product_stock", get_product_stock(product_id))
    \/ close

SpecConnection == Init /\ [][NextConnection]_vars

\* --- SpecRecords: creates, updates and reads by id on all four tables.
NextRecords ==
    \/ /\ sqlite_sequence["categories"] < MaxRecordCategories
       /\ \E name \in CategoryNameInputs, description \in Descriptions :
              create_category(name, description)
    \/ \E category_id \in KnownIds("categories", categories),
          name \in CategoryNameInputs, description \in Descriptions :
           update_category(category_id, name, description)
    \/ /\ sqlite_sequence["suppliers"] < MaxRecordSuppliers
       /\ \E name \in RecordSupplierNames, contact_info \in RecordContactInfos :
              create_supplier(name, contact_info, NullText)
    \/ \E supplier_id \in KnownIds("suppliers", suppliers),
          name \in RecordSupplierNames, contact_info \in RecordContactInfos :
           update_supplier(supplier_id, name, contact_info, NullText)
    \/ /\ sqlite_sequence["products"] < MaxRecordProducts
       /\ \E name \in RecordProductNames,
             category_id \in KnownIds("categories", categories) \cup {NULL},
             price \in ReportPrices :
              create_product(name, NullText, category_id, price, 5)
    \/ \E product_id \in KnownIds("products", products),
          name \in RecordProductNames,
          category_id \in KnownIds("categories", categories) \cup {NULL},
          price \in ReportPrices :
           update_product(product_id, name, NullText, category_id, price, 5)
    \/ /\ sqlite_sequence["inventory_transactions"] < MaxRecordTransactions
       /\ \E product_id \in KnownIds("products", products),
             transaction_type \in RecordTransactionTypes,
             supplier_id \in KnownIds("suppliers", suppliers) \cup {NULL} :
              create_transaction(product_id, transaction_type, 2, supplier_id,
                                 NullText)
    \/ \E transaction_id \in KnownIds("inventory_transactions",
                                      inventory_transactions),
          product_id \in KnownIds("products", products),
          transaction_type \in RecordTransactionTypes,
          supplier_id \in KnownIds("suppliers", suppliers) \cup {NULL} :
           update_transaction(transaction_id, product_id, transaction_type, 2,
                              supplier_id, NullText)

SpecRecords == Init /\ [][NextRecords]_vars

\* --- SpecListing: rows of every table, created over time, as the list
\* operations read them.
NextListing ==
    \/ /\ sqlite_sequence["categories"] < MaxListCategories
       /\ \E name \in CategoryNames : create_category(name, NullText)
    \/ /\ sqlite_sequence["suppliers"] < MaxListSuppliers
       /\ \E name \in ListSupplierNames : create_supplier(name, NullText, NullText)
    \/ /\ sqlite_sequence["products"] < MaxListProducts
       /\ \E name \in ListProductNames :
              create_product(name, NullText, NULL, 1999, 5)
    \/ /\ sqlite_sequence["inventory_transactions"] < MaxListTransactions
       /\ create_transaction(1, "IN", 2, NULL, NullText)
    \/ /\ now < MaxTime
       /\ Tick

SpecListing == Init /\ [][NextListing]_vars

\* --- SpecTop: the application's run: main seeds the empty database, then
\* the menu records products and stock movements.
NextTop ==
    \/ /\ products = {}
       /\ seed_sample_data
    \/ /\ products # {}
       /\ sqlite_sequence["products"] < MaxTopProducts
       /\ \E price \in TopPrices : create_product("Pen", NullText, NULL, price, 5)
    \/ /\ products # {}
       /\ sqlite_sequence["inventory_transactions"] < MaxTopTransactions
       /\ \E product_id \in KnownIds("products", products),
             transaction_type \in {"IN", "OUT"}, quantity \in TopQuantities :
              create_transaction(product_id, transaction_type, quantity,
                                 NULL, NullText)

SpecTop == Init /\ [][NextTop]_vars

\* --- SpecCategoryReport: categories, their products and the ledger.
NextCategoryReport ==
    \/ /\ sqlite_sequence["categories"] < MaxCategoryReportCategories
       /\ \E name \in CategoryNames : create_category(name, NullText)
    \/ /\ sqlite_sequence["products"] < MaxCategoryReportProducts
       /\ \E category_id \in KnownIds("categories", categories) \cup {NULL},
             price \in CategoryReportPrices :
              create_product("Pen", NullText, category_id, price, 5)
    \/ /\ sqlite_sequence["inventory_transactions"] < MaxCategoryReportTransactions
       /\ \E product_id \in KnownIds("products", products),
             transaction_type \in {"IN", "OUT"},
             quantity \in CategoryReportQuantities :
              create_transaction(product_id, transaction_type, quantity,
                                 NULL, NullText)

SpecCategoryReport == Init /\ [][NextCategoryReport]_vars

\* --- SpecMain: one run of main, from its first line to its return.
InitMain ==
    /\ categories = {}
    /\ suppliers = {}
    /\ products = {}
    /\ inventory_transactions = {}
    /\ sqlite_sequence = [t \in {"categories", "suppliers", "products",
                                 "inventory_transactions"} |-> 0]
    /\ foreign_keys = TRUE
    /\ connected = FALSE
    /\ now = 0
    /\ main = [pc |-> "start", db |-> FALSE]
    /\ pending = NoCall
    /\ op = "init"
    /\ result = None
    /\ stmts = 0
    /\ log = ""

NextMain ==
    \/ \E opened \in BOOLEAN, ok \in BOOLEAN : main_connect(opened, ok)
    \/ \E ok \in BOOLEAN : main_create_tables(ok)
    \/ main_seed
    \/ /\ main.pc = "running"
       /\ products # {}
       /\ sqlite_sequence["products"] < MaxMainProducts
       /\ \E price \in TopPrices : create_product("Pen", NullText, NULL, price, 5)
    \/ /\ main.pc = "running"
       /\ products # {}
       /\ \E product_id \in KnownIds("products", products) :
              delete_product(product_id)
    \/ main_quit
    \/ \E exception \in {"interrupt", "except"} : main_raise(exception)
    \/ main_except
    \/ \E collected \in BOOLEAN : main_finally(collected)

SpecMain == InitMain /\ [][NextMain]_vars

\* --- SpecPrices: products created and updated with prices of either sign.
NextPrices ==
    \/ /\ sqlite_sequence["products"] < MaxPriceProducts
       /\ \E price \in PriceInputs, reorder_level \in {5, 10} :
              create_product("Laptop", NullText, NULL, price, reorder_level)
    \/ \E product_id \in KnownIds("products", products), price \in PriceInputs,
          reorder_level \in {5, 10} :
           update_product(product_id, "Laptop", NullText, NULL, price,
                          reorder_level)

SpecPrices == Init /\ [][NextPrices]_vars

\* --- SpecPortable: the Repository on a store that does not enforce foreign
\* keys (PRAGMA foreign_keys off).
InitPortable ==
    /\ categories = {}
    /\ suppliers = {}
    /\ products = {}
    /\ inventory_transactions = {}
    /\ sqlite_sequence = [t \in {"categories", "suppliers", "products",
                                 "inventory_transactions"} |-> 0]
    /\ foreign_keys = FALSE
    /\ connected = TRUE
    /\ now = 0
    /\ main = [pc |-> "running", db |-> TRUE]
    /\ pending = NoCall
    /\ op = "init"
    /\ result = None
    /\ stmts = 0
    /\ log = ""

NextPortable ==
    \/ /\ sqlite_sequence["categories"] < MaxPortableCategories
       /\ \E name \in CategoryNames : create_category(name, NullText)
    \/ \E category_id \in IdsUpTo(MaxPortableCategories) :
           delete_category(category_id)
    \/ /\ sqlite_sequence["suppliers"] < MaxPortableSuppliers
       /\ create_supplier("TechCorp Inc.", NullText, NullText)
    \/ \E supplier_id \in IdsUpTo(MaxPortableSuppliers) :
           delete_supplier(supplier_id)
    \/ /\ sqlite_sequence["products"] < MaxPortableProducts
       /\ \E category_id \in KnownIds("categories", categories) \cup {NULL} :
              create_product("Laptop", NullText, category_id, 1999, 5)
    \/ \E product_id \in IdsUpTo(MaxPortableProducts) : delete_product(product_id)
    \/ /\ sqlite_sequence["inventory_transactions"] < MaxPortableTransactions
       /\ \E product_id \in KnownIds("products", products),
             supplier_id \in KnownIds("suppliers", suppliers) \cup {NULL} :
              create_transaction(product_id, "IN", 2, supplier_id, NullText)

SpecPortable == InitPortable /\ [][NextPortable]_vars

\* --- SpecProcesses: one process creates and deletes rows, call by call; a
\* second process deletes rows, statement by statement.
NextProcesses ==
    \/ /\ sqlite_sequence["categories"] < MaxProcessCategories
       /\ create_category("Electronics", NullText)
    \/ /\ sqlite_sequence["suppliers"] < MaxProcessSuppliers
       /\ create_supplier("TechCorp Inc.", NullText, NullText)
    \/ /\ sqlite_sequence["products"] < MaxProcessProducts
       /\ \E category_id \in KnownIds("categories", categories) \cup {NULL} :
              create_product("Laptop", NullText, category_id, 1999, 5)
    \/ /\ sqlite_sequence["inventory_transactions"] < MaxProcessTransactions
       /\ \E product_id \in KnownIds("products", products),
             supplier_id \in KnownIds("suppliers", suppliers) \cup {NULL} :
              create_transaction(product_id, "IN", 2, supplier_id, NullText)
    \/ \E product_id \in KnownIds("products", products) :
           delete_product(product_id)
    \/ \E call \in {"delete_category", "delete_supplier", "delete_product"},
          id \in IdsUpTo(MaxProcessProducts) : delete_count(call, id)
    \/ \E locked \in BOOLEAN : delete_statement(locked)

SpecProcesses == Init /\ [][NextProcesses]_vars

\* --- SpecSearch: products and the searches for them.
NextSearch ==
    \/ /\ sqlite_sequence["products"] < MaxSearchProducts
       /\ \E name \in SearchProductNames, description \in SearchDescriptions :
              create_product(name, description, NULL, 1999, 5)
    \/ \E search_term \in SearchTerms :
           \E s \in search_products(search_term) : Read("search_products", s)

SpecSearch == Init /\ [][NextSearch]_vars

\* ------------------------------------------------------------ properties
\* The sum of quantity over a set of ledger rows.
RECURSIVE LedgerSum(_)
LedgerSum(ts) ==
    IF ts = {} THEN 0
    ELSE LET t == CHOOSE x \in ts : TRUE
         IN t.quantity + LedgerSum(ts \ {t})

RowsOf(product_id, kind) ==
    {t \in inventory_transactions :
         t.product_id = product_id /\ t.transaction_type = kind}

\* C1: in every reachable state and for every product id p, get_product_stock(p)
\* is the sum of quantity over p's IN transactions minus the sum over p's OUT
\* transactions; ADJUSTMENT rows and other products' rows contribute nothing.
C1_StockIsInMinusOut ==
    \A p \in IdsUpTo(MaxLedgerProducts) :
        get_product_stock(p) = LedgerSum(RowsOf(p, "IN")) - LedgerSum(RowsOf(p, "OUT"))

\* A product with an IN and an OUT row, beside an ADJUSTMENT row or a row of
\* another product, and a stock that is not 0.
C1_Witness ==
    \E p \in IdsUpTo(MaxLedgerProducts) :
        /\ RowsOf(p, "IN") # {}
        /\ RowsOf(p, "OUT") # {}
        /\ \E t \in inventory_transactions :
               t.transaction_type = "ADJUSTMENT" \/ t.product_id # p
        /\ get_product_stock(p) # 0

\* What a recorded transaction does to the stock of its product.
StockDelta(transaction_type, quantity) ==
    CASE transaction_type = "IN" -> quantity
      [] transaction_type = "OUT" -> 0 - quantity
      [] OTHER -> 0

\* C2: a successful create_transaction(p, IN, q) raises get_product_stock(p) by
\* exactly q, a successful OUT lowers it by exactly q, a successful ADJUSTMENT
\* leaves it unchanged (so IN(q1) then OUT(q2), with ADJUSTMENTs interleaved,
\* ends at initial + q1 - q2), and the stock of every other product is unchanged.
C2_CreateTransactionMovesStock ==
    [][\A p \in IdsUpTo(MaxLedgerProducts), ty \in TransactionTypes,
          q \in Quantities, s \in IdsUpTo(MaxSuppliers) \cup {NULL}, n \in Notes :
           (/\ op' = "create_transaction"
            /\ result'.tag = "int"
            /\ create_transaction(p, ty, q, s, n)) =>
               /\ get_product_stock(p)' = get_product_stock(p) + StockDelta(ty, q)
               /\ \A o \in IdsUpTo(MaxLedgerProducts) \ {p} :
                      get_product_stock(o)' = get_product_stock(o)]_vars

\* create_transaction has just recorded an OUT for a product that already had
\* an IN and an ADJUSTMENT.
C2_Witness ==
    /\ op = "create_transaction"
    /\ result.tag = "int"
    /\ \E t \in inventory_transactions :
           /\ t.id = result.val
           /\ t.transaction_type = "OUT"
           /\ RowsOf(t.product_id, "IN") # {}
           /\ RowsOf(t.product_id, "ADJUSTMENT") # {}

HasNoTransactions(product_id) ==
    \A t \in inventory_transactions : t.product_id # product_id

\* C3: get_current_inventory returns exactly one row for each existing product
\* and no other rows; a product with no transactions appears with current_stock
\* 0, and get_product_stock of a product with no transactions is 0.
C3_InventoryOneRowPerProduct ==
    /\ {r.id : r \in get_current_inventory} = {p.id : p \in products}
    /\ Cardinality(get_current_inventory) = Cardinality(products)
    /\ \A r \in get_current_inventory :
           HasNoTransactions(r.id) => r.current_stock = 0
    /\ \A p \in IdsUpTo(MaxProducts) :
           HasNoTransactions(p) => get_product_stock(p) = 0

\* A product without transactions beside a product with one.
C3_Witness ==
    /\ \E p \in products : HasNoTransactions(p.id)
    /\ \E p \in products : ~HasNoTransactions(p.id)

\* C4: after any sequence of Repository calls, every product's category_id is
\* null or the id of an existing category, every transaction's product_id is the
\* id of an existing product, and every transaction's supplier_id is null or the
\* id of an existing supplier.
C4_ReferentialIntegrity ==
    /\ \A p \in products :
           p.category_id = NULL \/ \E c \in categories : c.id = p.category_id
    /\ \A t \in inventory_transactions :
           /\ \E p \in products : p.id = t.product_id
           /\ t.supplier_id = NULL \/ \E s \in suppliers : s.id = t.supplier_id

\* An update naming a missing parent row was just refused, in a store where a
\* product has a category and a transaction has a supplier.
C4_Witness ==
    /\ op \in {"update_product", "update_transaction"}
    /\ log = "FOREIGN KEY constraint failed"
    /\ \E p \in products : p.category_id # NULL
    /\ \E t \in inventory_transactions : t.supplier_id # NULL

\* C5: delete_category of a category referenced by a product, and
\* delete_supplier / delete_product of a supplier / product referenced by a
\* transaction, return False and leave every row of every table unchanged.
C5_DeleteWithDependentsRefused ==
    [][/\ \A id \in IdsUpTo(MaxCategories) :
              (/\ op' = "delete_category"
               /\ \E p \in products : p.category_id = id
               /\ delete_category(id))
                  => result' = False /\ UNCHANGED tables
       /\ \A id \in IdsUpTo(MaxSuppliers) :
              (/\ op' = "delete_supplier"
               /\ \E t \in inventory_transactions : t.supplier_id = id
               /\ delete_supplier(id))
                  => result' = False /\ UNCHANGED tables
       /\ \A id \in IdsUpTo(MaxProducts) :
              (/\ op' = "delete_product"
               /\ \E t \in inventory_transactions : t.product_id = id
               /\ delete_product(id))
                  => result' = False /\ UNCHANGED tables]_vars

\* A delete was just refused for its dependents, in a store where a category
\* has a product and a supplier and a product have a transaction.
C5_Witness ==
    /\ op \in {"delete_category", "delete_supplier", "delete_product"}
    /\ result = False
    /\ stmts = 1
    /\ \E p \in products : p.category_id # NULL
    /\ \E t \in inventory_transactions : t.supplier_id # NULL

\* C6: delete of an existing category with no referencing product (likewise an
\* existing supplier or product with no referencing transaction) returns True;
\* afterwards a read of that id returns absent, and every other row of every
\* table is unchanged.
C6_DeleteWithoutDependents ==
    [][/\ \A id \in IdsUpTo(MaxCategories) :
              (/\ op' = "delete_category"
               /\ \E c \in categories : c.id = id
               /\ \A p \in products : p.category_id # id
               /\ delete_category(id))
                  => /\ result' = True
                     /\ get_category_by_id(id)' = Absent
                     /\ categories' = {c \in categories : c.id # id}
                     /\ UNCHANGED <<suppliers, products, inventory_transactions>>
       /\ \A id \in IdsUpTo(MaxSuppliers) :
              (/\ op' = "delete_supplier"
               /\ \E s \in suppliers : s.id = id
               /\ \A t \in inventory_transactions : t.supplier_id # id
               /\ delete_supplier(id))
                  => /\ result' = True
                     /\ get_supplier_by_id(id)' = Absent
                     /\ suppliers' = {s \in suppliers : s.id # id}
                     /\ UNCHANGED <<categories, products, inventory_transactions>>
       /\ \A id \in IdsUpTo(MaxProducts) :
              (/\ op' = "delete_product"
               /\ \E p \in products : p.id = id
               /\ \A t \in inventory_transactions : t.product_id # id
               /\ delete_product(id))
                  => /\ result' = True
                     /\ get_product_by_id(id)' = Absent
                     /\ products' = {p \in products : p.id # id}
                     /\ UNCHANGED <<categories, suppliers, inventory_transactions>>]_vars

\* A delete has just succeeded and rows remain in its table and in others.
C6_Witness ==
    /\ op = "delete_category"
    /\ result = True
    /\ categories # {}
    /\ products # {}
    /\ inventory_transactions # {}

\* C7: in every state reachable by create_category, update_category,
\* delete_category and seed_sample_data calls, no two category rows have the
\* same name.
C7_CategoryNamesUnique ==
    \A c1 \in categories, c2 \in categories : c1.name = c2.name => c1.id = c2.id

\* A duplicate name was just refused on update, the sample data being loaded.
C7_Witness ==
    /\ op = "update_category"
    /\ log = "UNIQUE constraint failed"
    /\ Cardinality(categories) >= Len(SampleCategories)
    /\ products # {}

\* C8: create_category with the name of an existing category returns None, adds
\* no row, and leaves the existing category's id, name and description unchanged.
C8_DuplicateCategoryRefused ==
    [][\A name \in {"Electronics", "Toys"}, description \in Descriptions :
           (/\ op' = "create_category"
            /\ \E c \in categories : c.name = name
            /\ create_category(name, description))
               => result' = None /\ categories' = categories]_vars

\* create_category was just refused for a name a row bears, with another
\* description than the one the call carried.
C8_Witness ==
    /\ op = "create_category"
    /\ log = "UNIQUE constraint failed"
    /\ result = None
    /\ \E c \in categories : c.name = "Toys" /\ c.description # NullText

\* C9: create_product with a non-null category_id that matches no category
\* returns None and adds no product; create_transaction with a product_id that
\* matches no product, or a non-null supplier_id that matches no supplier,
\* returns None and adds no transaction.
\* (Stated contrapositively: a step with another outcome is no such call.)
C9_CreateWithMissingParentFails ==
    [][/\ (op' = "create_product" /\ ~(result' = None /\ products' = products))
              => \A name \in ProductNames, description \in ProductDescriptions,
                    category_id \in IdsUpTo(MaxCategories), price \in Prices,
                    reorder_level \in ReorderLevels :
                     (\A c \in categories : c.id # category_id)
                         => ~create_product(name, description, category_id,
                                            price, reorder_level)
       /\ (/\ op' = "create_transaction"
           /\ ~(/\ result' = None
                /\ inventory_transactions' = inventory_transactions))
              => \A product_id \in IdsUpTo(MaxProducts),
                    transaction_type \in TransactionTypeInputs,
                    quantity \in Quantities,
                    supplier_id \in IdsUpTo(MaxSuppliers) \cup {NULL},
                    notes \in Notes :
                     (\/ \A p \in products : p.id # product_id
                      \/ /\ supplier_id # NULL
                         /\ \A s \in suppliers : s.id # supplier_id)
                         => ~create_transaction(product_id, transaction_type,
                                                quantity, supplier_id, notes)]_vars

\* A create naming a missing parent row was just refused by the store, while
\* rows exist that it could have named.
C9_Witness ==
    /\ op = "create_transaction"
    /\ log = "FOREIGN KEY constraint failed"
    /\ result = None
    /\ products # {}
    /\ suppliers # {}

\* C10: create_transaction and update_transaction called with a
\* transaction_type other than exactly 'IN', 'OUT' or 'ADJUSTMENT' fail (None,
\* False) before any store statement is issued and leave the ledger unchanged;
\* every stored transaction's type is one of the three values.
\* (Stated contrapositively: a step with another outcome is no such call.)
C10_InvalidTypeRejectedBeforeStore ==
    /\ [][/\ (/\ op' = "create_transaction"
              /\ ~(result' = None /\ stmts' = 0 /\ UNCHANGED store))
                 => \A product_id \in IdsUpTo(MaxLedgerProducts),
                       transaction_type \in TransactionTypeInputs \ TransactionTypes,
                       quantity \in Quantities, notes \in Notes :
                        ~create_transaction(product_id, transaction_type,
                                            quantity, NULL, notes)
          /\ (/\ op' = "update_transaction"
              /\ ~(result' = False /\ stmts' = 0 /\ UNCHANGED store))
                 => \A transaction_id \in IdsUpTo(MaxLedger),
                       product_id \in IdsUpTo(MaxLedgerProducts),
                       transaction_type \in TransactionTypeInputs \ TransactionTypes,
                       quantity \in Quantities, notes \in Notes :
                        ~update_transaction(transaction_id, product_id,
                                            transaction_type, quantity,
                                            NULL, notes)]_vars
    /\ [](\A t \in inventory_transactions :
              t.transaction_type \in {"IN", "OUT", "ADJUSTMENT"})

\* update_transaction has just refused a bad type for an existing transaction.
C10_Witness ==
    /\ op = "update_transaction"
    /\ log = "ValueError"
    /\ result = False
    /\ inventory_transactions # {}

RECURSIVE ValueOf(_)
ValueOf(ps) ==
    IF ps = {} THEN 0
    ELSE LET p == CHOOSE x \in ps : TRUE
         IN get_product_stock(p.id) * p.price + ValueOf(ps \ {p})

\* C12: get_inventory_value returns total_value equal to the sum over all
\* products of current stock times price, a negative stock contributing
\* negatively, and total_products equal to the number of product rows whatever
\* the sign of their stock; with no products all three results are 0.
C12_InventoryValueIsSum ==
    /\ get_inventory_value.total_value = ValueOf(products)
    /\ get_inventory_value.total_products = Cardinality(products)
    /\ products = {} =>
           /\ get_inventory_value.total_value = 0
           /\ get_inventory_value.avg_price.num = 0
           /\ get_inventory_value.total_products = 0

\* A product with negative stock beside one with positive stock and one
\* without transactions.
C12_Witness ==
    /\ \E p \in products : get_product_stock(p.id) < 0
    /\ \E p \in products : get_product_stock(p.id) > 0
    /\ \E p \in products : HasNoTransactions(p.id)
    /\ get_inventory_value.total_value # 0

\* C13: create_transaction(p, 'OUT', q) for an existing product p succeeds for
\* every q drawn, whatever p's current stock is, so states with
\* get_product_stock(p) < 0 are reachable; and a negative stock ends only by a
\* successful write to the ledger: no operation rejects or corrects it.
\* (The first part stated contrapositively: a failed step is no such call; the
\* second for the steps that change the ledger, the stock being read from it.)
C13_StockMayGoNegative ==
    [][/\ (op' = "create_transaction" /\ result'.tag # "int")
              => \A product_id \in {p.id : p \in products},
                    quantity \in Quantities, notes \in Notes :
                     ~create_transaction(product_id, "OUT", quantity, NULL, notes)
       /\ (/\ inventory_transactions' # inventory_transactions
           /\ ~(/\ op' \in {"create_transaction", "update_transaction",
                             "delete_transaction"}
                /\ result' \notin {None, False}))
              => \A p \in IdsUpTo(MaxLedgerProducts) :
                     get_product_stock(p) < 0 => get_product_stock(p)' < 0]_vars

\* create_transaction has just recorded an OUT that took a stock that was
\* already negative further down.
C13_Witness ==
    /\ op = "create_transaction"
    /\ result.tag = "int"
    /\ \E t \in inventory_transactions :
           /\ t.id = result.val
           /\ t.transaction_type = "OUT"
           /\ t.quantity > 0
           /\ get_product_stock(t.product_id) + t.quantity < 0

\* C14: a constraint violation or an underlying store failure during any
\* Repository operation (create, read by id, list, update, delete, search,
\* get_product_stock) reaches the caller only as a None / False / absent return
\* value; no Repository operation lets an exception propagate to its caller.
C14_NoExceptionPropagates == result # Raised

\* C15: for every entity type, update(id, fields) returns True exactly when a
\* row with that id exists and the new fields violate no constraint; on True a
\* following read(id) returns the new field values and no other row changes; on
\* False (no row matched, a NULL or duplicate name, an invalid type, or a
\* reference to a missing category / product / supplier) every row is unchanged.
C15_UpdateSemantics ==
    [][/\ op' = "update_category" =>
          \A id \in KnownIds("categories", categories),
             name \in CategoryNameInputs, description \in Descriptions :
              update_category(id, name, description)
                  => /\ result' =
                            IF /\ \E c \in categories : c.id = id
                               /\ name # NullText
                               /\ \A c \in categories : c.name = name => c.id = id
                            THEN True ELSE False
                     /\ result' = True =>
                            /\ get_category_by_id(id)' =
                                   <<[id |-> id, name |-> name,
                                      description |-> description]>>
                            /\ {c \in categories' : c.id # id} =
                                   {c \in categories : c.id # id}
                            /\ UNCHANGED <<suppliers, products,
                                           inventory_transactions>>
                     /\ result' = False => UNCHANGED tables
       /\ op' = "update_supplier" =>
          \A id \in KnownIds("suppliers", suppliers),
             name \in RecordSupplierNames, contact_info \in RecordContactInfos :
              update_supplier(id, name, contact_info, NullText)
                  => /\ result' =
                            IF (\E x \in suppliers : x.id = id) /\ name # NullText
                            THEN True ELSE False
                     /\ result' = True =>
                            /\ get_supplier_by_id(id)' =
                                   <<[id |-> id, name |-> name,
                                      contact_info |-> contact_info,
                                      address |-> NullText]>>
                            /\ {x \in suppliers' : x.id # id} =
                                   {x \in suppliers : x.id # id}
                            /\ UNCHANGED <<categories, products,
                                           inventory_transactions>>
                     /\ result' = False => UNCHANGED tables
       /\ op' = "update_product" =>
          \A id \in KnownIds("products", products),
             name \in RecordProductNames,
             category_id \in KnownIds("categories", categories) \cup {NULL},
             price \in ReportPrices :
              update_product(id, name, NullText, category_id, price, 5)
                  => /\ result' =
                            IF /\ \E x \in products : x.id = id
                               /\ name # NullText
                               /\ \/ category_id = NULL
                                  \/ \E c \in categories : c.id = category_id
                            THEN True ELSE False
                     /\ result' = True =>
                            /\ get_product_by_id(id)' # Absent
                            /\ LET r == get_product_by_id(id)'[1]
                               IN /\ r.name = name
                                  /\ r.description = NullText
                                  /\ r.category_id = category_id
                                  /\ r.price = price
                                  /\ r.reorder_level = 5
                            /\ {x \in products' : x.id # id} =
                                   {x \in products : x.id # id}
                            /\ UNCHANGED <<categories, suppliers,
                                           inventory_transactions>>
                     /\ result' = False => UNCHANGED tables
       /\ op' = "update_transaction" =>
          \A id \in KnownIds("inventory_transactions", inventory_transactions),
             product_id \in KnownIds("products", products),
             transaction_type \in RecordTransactionTypes,
             supplier_id \in KnownIds("suppliers", suppliers) \cup {NULL} :
              update_transaction(id, product_id, transaction_type, 2,
                                 supplier_id, NullText)
                  => /\ result' =
                            IF /\ \E t \in inventory_transactions : t.id = id
                               /\ transaction_type \in {"IN", "OUT", "ADJUSTMENT"}
                               /\ \E x \in products : x.id = product_id
                               /\ \/ supplier_id = NULL
                                  \/ \E x \in suppliers : x.id = supplier_id
                            THEN True ELSE False
                     /\ result' = True =>
                            /\ get_transaction_by_id(id)' # Absent
                            /\ LET r == get_transaction_by_id(id)'[1]
                               IN /\ r.product_id = product_id
                                  /\ r.transaction_type = transaction_type
                                  /\ r.quantity = 2
                                  /\ r.supplier_id = supplier_id
                                  /\ r.notes = NullText
                            /\ {t \in inventory_transactions' : t.id # id} =
                                   {t \in inventory_transactions : t.id # id}
                            /\ UNCHANGED <<categories, suppliers, products>>
                     /\ result' = False => UNCHANGED tables]_vars

\* An update has just moved a transaction to another supplier, in a store
\* whose product has taken another category and price than it was created with.
C15_Witness ==
    /\ op = "update_transaction"
    /\ result = True
    /\ \E t \in inventory_transactions : t.supplier_id # NULL
    /\ \E x \in products : x.category_id = 2 /\ x.price = 4999
    /\ \E c \in categories : c.id = 2 /\ c.description # NullText
    /\ \E x \in suppliers : x.contact_info # NullText

\* C16: for every entity type, a create with fields that violate no constraint
\* returns a positive integer id borne by no other row of that table, and a
\* read of that id immediately afterwards returns a record with exactly the
\* supplied field values; a read of an id that matches no row returns None.
C16_CreateReadRoundTrip ==
    /\ [][/\ op' = "create_category" =>
             \A name \in CategoryNames, description \in Descriptions :
                 (/\ \A c \in categories : c.name # name
                  /\ create_category(name, description))
                     => \E n \in KnownIds("categories", categories) :
                            /\ result' = Id(n) /\ n > 0
                            /\ \A c \in categories : c.id # n
                            /\ Cardinality({c \in categories' : c.id = n}) = 1
                            /\ get_category_by_id(n)' =
                                   <<[id |-> n, name |-> name,
                                      description |-> description]>>
          /\ op' = "create_supplier" =>
             \A name \in RecordSupplierNames \ {NullText},
                contact_info \in RecordContactInfos :
                 create_supplier(name, contact_info, NullText)
                     => \E n \in KnownIds("suppliers", suppliers) :
                            /\ result' = Id(n) /\ n > 0
                            /\ \A x \in suppliers : x.id # n
                            /\ Cardinality({x \in suppliers' : x.id = n}) = 1
                            /\ get_supplier_by_id(n)' =
                                   <<[id |-> n, name |-> name,
                                      contact_info |-> contact_info,
                                      address |-> NullText]>>
          /\ op' = "create_product" =>
             \A name \in RecordProductNames \ {NullText},
                category_id \in {c.id : c \in categories} \cup {NULL},
                price \in ReportPrices :
                 create_product(name, NullText, category_id, price, 5)
                     => \E n \in KnownIds("products", products) :
                            /\ result' = Id(n) /\ n > 0
                            /\ \A x \in products : x.id # n
                            /\ Cardinality({x \in products' : x.id = n}) = 1
                            /\ get_product_by_id(n)' # Absent
                            /\ LET r == get_product_by_id(n)'[1]
                               IN /\ r.name = name
                                  /\ r.description = NullText
                                  /\ r.category_id = category_id
                                  /\ r.price = price
                                  /\ r.reorder_level = 5
          /\ op' = "create_transaction" =>
             \A product_id \in {x.id : x \in products},
                transaction_type \in RecordTransactionTypes \ {"INVALID"},
                supplier_id \in {x.id : x \in suppliers} \cup {NULL} :
                 create_transaction(product_id, transaction_type, 2, supplier_id,
                                    NullText)
                     => \E n \in KnownIds("inventory_transactions", inventory_transactions) :
                            /\ result' = Id(n) /\ n > 0
                            /\ \A t \in inventory_transactions : t.id # n
                            /\ Cardinality({t \in inventory_transactions' :
                                                t.id = n}) = 1
                            /\ get_transaction_by_id(n)' # Absent
                            /\ LET r == get_transaction_by_id(n)'[1]
                               IN /\ r.product_id = product_id
                                  /\ r.transaction_type = transaction_type
                                  /\ r.quantity = 2
                                  /\ r.supplier_id = supplier_id
                                  /\ r.notes = NullText]_vars
    /\ [](/\ \A id \in KnownIds("categories", categories) :
                (\A c \in categories : c.id # id) => get_category_by_id(id) = Absent
          /\ \A id \in KnownIds("suppliers", suppliers) :
                (\A x \in suppliers : x.id # id) => get_supplier_by_id(id) = Absent
          /\ \A id \in KnownIds("products", products) :
                (\A x \in products : x.id # id) => get_product_by_id(id) = Absent
          /\ \A id \in KnownIds("inventory_transactions", inventory_transactions) :
                (\A t \in inventory_transactions : t.id # id)
                    => get_transaction_by_id(id) = Absent)

\* create_transaction has just returned the id of a transaction that names a
\* supplier with contact data and a product in a described category.
C16_Witness ==
    /\ op = "create_transaction"
    /\ result.tag = "int"
    /\ \E t \in inventory_transactions :
           /\ t.id = result.val
           /\ \E x \in suppliers : x.id = t.supplier_id /\ x.contact_info # NullText
           /\ \E x \in products :
                  /\ x.id = t.product_id
                  /\ \E c \in categories :
                         c.id = x.category_id /\ c.description # NullText

\* s lists every row of rows once, in ascending order of name.
ListsAllByName(s, rows) ==
    /\ {s[i] : i \in 1 .. Len(s)} = rows
    /\ Len(s) = Cardinality(rows)
    /\ \A i \in 1 .. Len(s) - 1 : ~TextLess(s[i + 1].name, s[i].name)

\* C17: get_categories, get_suppliers and get_products return every row of
\* their table ordered by name ascending; get_transactions(limit) returns at
\* most limit transactions (100 when no limit is given), ordered by date
\* descending, and they are the most recent ones: no omitted transaction is
\* newer than a returned one.
C17_ListingsOrdered ==
    /\ \A s \in get_categories : ListsAllByName(s, categories)
    /\ \A s \in get_suppliers : ListsAllByName(s, suppliers)
    /\ \A s \in get_products :
           /\ ListsAllByName(s, {ProductRow(p) : p \in products})
           /\ {s[i].id : i \in 1 .. Len(s)} = {p.id : p \in products}
    /\ \A limit \in Limits :
           \A s \in get_transactions(limit) :
               /\ Len(s) <= limit
               /\ Len(s) = limit \/ Len(s) = Cardinality(inventory_transactions)
               /\ \A i \in 1 .. Len(s) :
                      \E t \in inventory_transactions :
                          t.id = s[i].id /\ t.date = s[i].date
               /\ \A i, j \in 1 .. Len(s) : i # j => s[i].id # s[j].id
               /\ \A i \in 1 .. Len(s) - 1 : s[i].date >= s[i + 1].date
               /\ \A t \in inventory_transactions :
                      (\A i \in 1 .. Len(s) : s[i].id # t.id)
                          => \A i \in 1 .. Len(s) : t.date <= s[i].date

\* Two rows of different names in each of the three tables, the later row
\* bearing the name that sorts first, and two transactions of different
\* seconds, so that a limit of 1 omits the older one.
C17_Witness ==
    /\ \E a, b \in categories : a.id < b.id /\ TextLess(b.name, a.name)
    /\ \E a, b \in suppliers : a.id < b.id /\ TextLess(b.name, a.name)
    /\ \E a, b \in products : a.id < b.id /\ TextLess(b.name, a.name)
    /\ Cardinality({t.date : t \in inventory_transactions}) = 2

\* text contains term as a substring, without regard to the case of letters.
Contains(text, term) ==
    \E i \in 0 .. Len(text) - Len(term) :
        \A j \in 1 .. Len(term) : Lower(text[i + j]) = Lower(term[j])

\* C18: search_products(term) returns exactly the products whose name or
\* description contains term as a case-insensitive substring, for every term,
\* ordered by name ascending; a term contained in no product's name or
\* description yields an empty list.
C18_SearchIsSubstringMatch ==
    \A term \in SearchTerms :
        LET matching ==
                {p.id : p \in {x \in products :
                                   \/ Contains(Bytes(x.name), Bytes(term))
                                   \/ /\ x.description # NullText
                                      /\ Contains(Bytes(x.description),
                                                  Bytes(term))}}
        IN \A s \in search_products(term) :
               /\ {s[i].id : i \in 1 .. Len(s)} = matching
               /\ Len(s) = Cardinality(matching)
               /\ \A i \in 1 .. Len(s) - 1 : ~TextLess(s[i + 1].name, s[i].name)
               /\ matching = {} => s = <<>>

\* C19: every list the top-valued query may return holds at most 5 products,
\* each with current stock > 0, ordered by current stock times price
\* descending, and no product in stock that is left out has a strictly larger
\* value than one that is listed.
C19_TopValuedProducts ==
    LET inventory == get_current_inventory
        in_stock == {r \in inventory : r.current_stock > 0}
    IN \A s \in top_products :
           LET listed == {s[i].id : i \in 1 .. Len(s)}
           IN /\ Len(s) <= 5
              /\ Len(s) = Cardinality(listed)
              /\ Cardinality(in_stock) <= 5 => Len(s) = Cardinality(in_stock)
              /\ \A i \in 1 .. Len(s) :
                     /\ s[i].current_stock > 0
                     /\ s[i].total_value = s[i].current_stock * s[i].price
                     /\ \E r \in in_stock :
                            /\ r.id = s[i].id
                            /\ r.name = s[i].name
                            /\ r.current_stock = s[i].current_stock
                            /\ r.price = s[i].price
              /\ \A i \in 1 .. Len(s) - 1 :
                     s[i].total_value >= s[i + 1].total_value
              /\ \A r \in in_stock :
                     r.id \notin listed =>
                         \A i \in 1 .. Len(s) :
                             r.current_stock * r.price <= s[i].total_value

\* Six products are in stock, two of them of equal value: the list holds five.
C19_Witness ==
    /\ Cardinality({r \in get_current_inventory : r.current_stock > 0}) = 6
    /\ Cardinality(top_products) > 1
    /\ \E s \in top_products : Len(s) = 5

\* C20: the category report has exactly one row per existing category, with
\* the number of its products, the sum of their current stock and the sum of
\* their stock times price (zeros for a category without products), and its
\* rows are ordered by total value descending, a category without products
\* ranking with value 0.
C20_CategoryReport ==
    \A s \in generate_category_report :
        /\ Len(s) = Cardinality(categories)
        /\ \A c \in categories :
               LET own == {p \in products : p.category_id = c.id}
               IN \E i \in 1 .. Len(s) :
                      /\ s[i].category_name = c.name
                      /\ s[i].products = Cardinality(own)
                      /\ s[i].total_stock =
                             Total({<<p.id, get_product_stock(p.id)>> : p \in own})
                      /\ s[i].total_value =
                             Total({<<p.id, get_product_stock(p.id) * p.price>> :
                                        p \in own})
        /\ \A i \in 1 .. Len(s) - 1 : s[i].total_value >= s[i + 1].total_value

\* C21: on every exit path of main (normal return from the menu,
\* KeyboardInterrupt, or an exception raised at any point after the connection
\* was opened, table creation and seeding included) the connection is closed
\* before main returns.
C21_ClosedOnEveryExit == main.pc = "returned" => ~connected

\* C22: delete_transaction(id) of an existing transaction returns True whatever
\* other rows exist; afterwards exactly that transaction is gone, the stock of
\* its product is the sum without it (lower by q for a deleted IN of q, higher
\* by q for a deleted OUT of q, unchanged for a deleted ADJUSTMENT), and the
\* stock of every other product is unchanged.
C22_DeleteTransaction ==
    [][op' = "delete_transaction" =>
           \A t \in inventory_transactions :
               delete_transaction(t.id) =>
                   /\ result' = True
                   /\ inventory_transactions' = inventory_transactions \ {t}
                   /\ \A x \in inventory_transactions' : x.id # t.id
                   /\ get_product_stock(t.product_id)' =
                          get_product_stock(t.product_id)
                              - CaseQuantity(t, "IN") + CaseQuantity(t, "OUT")
                   /\ \A p \in IdsUpTo(MaxLedgerProducts) \ {t.product_id} :
                          get_product_stock(p)' = get_product_stock(p)]_vars

\* delete_transaction has just removed one of several transactions: others
\* remain and the stock they give is not 0.
C22_Witness ==
    /\ op = "delete_transaction"
    /\ result = True
    /\ Cardinality(inventory_transactions) = 2
    /\ \E t \in inventory_transactions : get_product_stock(t.product_id) # 0
    /\ \E t \in inventory_transactions : t.id < sqlite_sequence["inventory_transactions"]

\* C23: in every state reachable through Repository calls every product row
\* has price >= 0: create_product and update_product called with a negative
\* price do not store it.
C23_PriceNonNegative == \A p \in products : p.price >= 0

\* C24: with foreign-key enforcement switched off, a delete_category,
\* delete_supplier or delete_product call taken in a state where every
\* reference has its target leaves such a state: the DELETE statement (the
\* second statement of the call) is reached only when no row depends on the
\* row to delete.
C24_DeletesKeepIntegrity ==
    [][(~foreign_keys /\ op' \in {"delete_category", "delete_supplier",
                                  "delete_product"}) =>
           /\ C4_ReferentialIntegrity => C4_ReferentialIntegrity'
           /\ \A n \in IdsUpTo(MaxPortableProducts) :
                  /\ (delete_category(n) /\ stmts' = 2)
                         => \A p \in products : p.category_id # n
                  /\ (delete_supplier(n) /\ stmts' = 2)
                         => \A t \in inventory_transactions : t.supplier_id # n
                  /\ (delete_product(n) /\ stmts' = 2)
                         => \A t \in inventory_transactions : t.product_id # n]_vars

\* Without foreign-key enforcement delete_supplier has just refused, on its
\* count alone, to delete a supplier a transaction refers to.
C24_Witness ==
    /\ ~foreign_keys
    /\ op = "delete_supplier"
    /\ result = False
    /\ stmts = 1
    /\ C4_ReferentialIntegrity
    /\ \E t \in inventory_transactions :
           \E x \in suppliers : x.id = t.supplier_id

\* C25: in every reachable state and for every product p, the current_stock
\* of p's row in get_current_inventory, of p's row in get_low_stock_products
\* (when present), and the stock that get_inventory_value, the category report
\* and the top-valued list multiply by price all equal get_product_stock(p).
C25_StockQueriesAgree ==
    LET inventory == get_current_inventory
        low == get_low_stock_products
        value == StockByProduct
        category == CategoryStock
        top == {TopRow(TopGroup(j)) : j \in InventoryJoin}
    IN \A p \in products :
           LET stock == get_product_stock(p.id)
           IN /\ \E r \in inventory : r.id = p.id
              /\ \A r \in inventory : r.id = p.id => r.current_stock = stock
              /\ \A s \in low : \A i \in 1 .. Len(s) :
                     s[i].id = p.id => s[i].current_stock = stock
              /\ \E r \in value : r.id = p.id
              /\ \A r \in value : r.id = p.id => r.current_stock = stock
              /\ \E r \in category : r.product_id = p.id
              /\ \A r \in category : r.product_id = p.id => r.current_stock = stock
              /\ \E r \in top : r.id = p.id
              /\ \A r \in top : r.id = p.id => r.current_stock = stock

\* A product of a category with an IN and an OUT, beside a product without
\* category and without transactions.
C25_Witness ==
    /\ \E p \in products :
           /\ p.category_id # NULL
           /\ \E t \in inventory_transactions :
                  t.product_id = p.id /\ t.transaction_type = "IN"
           /\ \E t \in inventory_transactions :
                  t.product_id = p.id /\ t.transaction_type = "OUT"
    /\ \E p \in products :
           /\ p.category_id = NULL
           /\ \A t \in inventory_transactions : t.product_id # p.id

\* The rows of table t.
TableRows(t) ==
    CASE t = "categories" -> categories
      [] t = "suppliers" -> suppliers
      [] t = "products" -> products
      [] OTHER -> inventory_transactions

\* C26: within each table every successful create returns an id strictly
\* greater than every id assigned earlier in that table (the largest is the
\* table's sqlite_sequence entry, which never goes down), also after deletes
\* and failed creates; so no id is reused, and no step makes an id that was
\* assigned earlier denote a row of a record created later.
C26_IdsNeverReused ==
    /\ [][\A t \in DOMAIN sqlite_sequence :
              /\ sqlite_sequence'[t] >= sqlite_sequence[t]
              /\ \A r \in TableRows(t)' :
                     r.id <= sqlite_sequence[t] => \E x \in TableRows(t) : x.id = r.id
              /\ (/\ result'.tag = "int"
                  /\ \/ t = "categories" /\ op' = "create_category"
                     \/ t = "suppliers" /\ op' = "create_supplier"
                     \/ t = "products" /\ op' = "create_product"
                     \/ t = "inventory_transactions" /\ op' = "create_transaction")
                     => /\ result'.val > sqlite_sequence[t]
                        /\ sqlite_sequence'[t] >= result'.val
                        /\ \E r \in TableRows(t)' : r.id = result'.val]_vars
    /\ [](\A t \in DOMAIN sqlite_sequence :
              \A r \in TableRows(t) : r.id <= sqlite_sequence[t])

\* create_product has just returned 2 after product 1 was deleted: the table
\* holds product 2 alone.
C26_Witness ==
    /\ op = "create_product"
    /\ result = Id(2)
    /\ \A p \in products : p.id = 2

\* C27: in every state in which the product table is empty, whatever
\* categories, suppliers and id counters earlier operations left behind,
\* seed_sample_data completes without raising and leaves at least 4
\* categories, 4 suppliers, 4 products and 6 transactions in which every
\* product's category_id and every transaction's product_id and supplier_id
\* reference an existing row.
C27_SeedOnEmptyProducts ==
    [][(products = {} /\ op' = "seed_sample_data" /\ seed_sample_data) =>
           /\ result' # Raised
           /\ Cardinality(categories') >= 4
           /\ Cardinality(suppliers') >= 4
           /\ Cardinality(products') >= 4
           /\ Cardinality(inventory_transactions') >= 6
           /\ C4_ReferentialIntegrity']_vars

\* C28: when a second process interleaves its deletes with the calls of the
\* first at the grain of single statements, the store enforcing foreign keys,
\* every reference has its target in every reachable state; and when a
\* product referencing category c was committed between the count and the
\* DELETE of delete_category(c), the DELETE is rejected: delete_category
\* returns False and the category remains.
C28_InterleavedIntegrity ==
    /\ [][(/\ pending.call = "delete_category"
           /\ pending' = NoCall
           /\ \E p \in products : p.category_id = pending.id)
              => /\ op' = "delete_category"
                 /\ result' = False
                 /\ categories' = categories]_vars
    /\ []C4_ReferentialIntegrity

\* The store has just rejected the DELETE of a category whose count of
\* products was 0 when delete_category took it: a product came in between.
C28_Witness ==
    /\ op = "delete_category"
    /\ result = False
    /\ stmts = 2
    /\ log = "FOREIGN KEY constraint failed"
    /\ \E p \in products : \E c \in categories : p.category_id = c.id

\* C29: in every reachable state, products with a null category_id included,
\* the total-value column of the category report adds up to
\* get_inventory_value().total_value and its product-count column to
\* get_inventory_value().total_products.
C29_CategoryReportAddsUp ==
    LET value == get_inventory_value
    IN \A s \in generate_category_report :
           /\ Total({<<i, s[i].total_value>> : i \in 1 .. Len(s)})
                  = value.total_value
           /\ Total({<<i, s[i].products>> : i \in 1 .. Len(s)})
                  = value.total_products

\* C30: a delete_product(p) that returns True is taken only in a state where
\* get_product_stock(p) = 0, so it leaves get_inventory_value().total_value
\* unchanged and lowers total_products by exactly 1; and no step removes a
\* product that still carries derived stock.
C30_DeleteProductKeepsValue ==
    [][/\ (op' = "delete_product" /\ result' = True) =>
              \A product_id \in IdsUpTo(MaxLedgerProducts) :
                  delete_product(product_id) =>
                      /\ get_product_stock(product_id) = 0
                      /\ get_inventory_value'.total_value
                             = get_inventory_value.total_value
                      /\ get_inventory_value'.total_products
                             = get_inventory_value.total_products - 1
       /\ \A p \in products \ products' :
              (\A x \in products' : x.id # p.id) => get_product_stock(p.id) = 0]_vars

\* delete_product has just removed a product while another product, with
\* stock, stays: the inventory value is not 0.
C30_Witness ==
    /\ op = "delete_product"
    /\ result = True
    /\ get_inventory_value.total_value # 0
    /\ get_inventory_value.total_products = 1

====
